---- MODULE Spec2Model ----
(***************************************************************************)
(* Kortex inference gateway: circuit breaker, backend and route            *)
(* reconcilers, the shared config cache, the fallback executor of the      *)
(* backend handler, the retrier with its circuit breaker manager and the   *)
(* rate limiter.                                                           *)
(***************************************************************************)
EXTENDS Integers, Sequences, FiniteSets, TLC

VARIABLES
    now,        \* wall clock read by time.Now(), in timeout units
    cbConfig,   \* CircuitBreaker.config
    cb,         \* CircuitBreaker's mutable fields
    cbLast,     \* the last call made on the breaker and what it returned
    apiBackends,    \* InferenceBackend objects held by the API server
    failureCounts,  \* InferenceBackendReconciler.failureCounts
    cacheBackends,  \* Store.backends
    probeStreak,    \* per key: failed probes since the last successful probe
    ctlLast,        \* the last reconcile that ran and what it did
    apiRoutes,      \* InferenceRoute objects held by the API server
    cacheRoutes,    \* Store.routes, as the objects it holds
    heap,       \* objects by address: the Store's copies and the callers'
    mu,         \* Store.mu
    routes,     \* Store.routes, as addresses
    backends,   \* Store.backends, as addresses
    calls,      \* per goroutine: the Store call in progress, objects held
    written,    \* per kind and key: the object passed to the latest Set
    stLast,     \* the last Store step and what it returned
    exec,       \* the frame of the ExecuteWithFallback call in progress
    clientW,    \* the http.ResponseWriter of that call's client
    retryConfig,    \* Retrier.config
    breakers,   \* CircuitBreakerManager.breakers
    retry,      \* the frame of the RetryWithCircuitBreaker.Execute in progress
    ctxErr,     \* ctx.Err() of that call's context
    flight,     \* requests admitted by the breaker and not recorded yet
    limiters,   \* RateLimiter.routeLimiters and RateLimiter.userLimiters
    rlCall,     \* the route, user and config the limiter is called with
    rlWindow,   \* admissions at this instant and one second earlier
    rlLast,     \* the RateLimitResult of the last Allow
    routeCache, \* Store.routes by namespaced name, as the router reads them
    srv,        \* the request in Server.ServeHTTP and its response
    emMetrics,  \* the experiment assignments counted by the MetricsRecorder
    exSeen,     \* the calls of GetBackend made so far, with their results
    exLast,     \* the last call of GetBackend and its result
    costs,      \* CostTracker.routeCosts and CostTracker.backendCosts
    costMu,     \* CostTracker.mu: the goroutine that holds it, or free
    costCalls,  \* per goroutine: the TrackRequest in progress
    costExpected,   \* per key: the calls returned since the last Reset
    costLast,   \* the last step on the tracker, and the calls started
    events,     \* Backends with a change event the Route controller has not handled
    queue,      \* the Route controller's workqueue: Routes awaiting Reconcile
    changes,    \* status changes of Backends so far
    rlOp        \* the last operation on the rate limiter's tables

cbVars == <<now, cbConfig, cb, cbLast>>

----------------------------------------------------------------------------
(* Bounds *)

MaxTime == 5
MaxRequests == 4
MaxFailures == 4
MaxRetriesBound == 2
MaxInFlight == 3

\* Calls of ExperimentManager.GetBackend in one run.
MaxAssignments == 4

\* Calls of CostTracker.TrackRequest in one run.
MaxTracked == 3

\* Status changes of Backends in one run of the watch specification.
MaxChanges == 2

\* How far the clock of the bucket eviction runs, in units of ten minutes.
MaxClock == 4

----------------------------------------------------------------------------
(* Circuit breaker (package proxy) *)

StateClosed == "closed"
StateOpen == "open"
StateHalfOpen == "half-open"

ErrCircuitOpen == "circuit breaker is open"
ErrTooManyRequests == "too many requests in half-open state"
NoError == "nil"

\* Configurations the breaker is constructed with.  FailureRateThreshold is
\* the fraction RateNum / RateDen.
BreakerConfigs ==
    [FailureThreshold : {2, 3},
     SuccessThreshold : {1, 2},
     Timeout : {2},
     HalfOpenMaxRequests : {1, 2},
     RateNum : {0, 1},
     RateDen : {2},
     MinRequestsForRate : {2}]

NewCircuitBreaker ==
    [state |-> StateClosed,
     failures |-> 0,
     successes |-> 0,
     consecutiveFailures |-> 0,
     consecutiveSuccesses |-> 0,
     totalRequests |-> 0,
     openedAt |-> 0,
     halfOpenRequests |-> 0]

transitionTo_NoStamp(c, newState, t) ==
    CASE newState = StateOpen -> [c EXCEPT !.state = newState]
      [] newState = StateHalfOpen ->
            [c EXCEPT !.state = newState,
                      !.halfOpenRequests = 0,
                      !.consecutiveSuccesses = 0]
      [] OTHER ->
            [c EXCEPT !.state = newState,
                      !.failures = 0,
                      !.successes = 0,
                      !.totalRequests = 0,
                      !.consecutiveFailures = 0,
                      !.consecutiveSuccesses = 0]

transitionTo(c, newState, t) ==
    CASE newState = StateOpen ->
            [c EXCEPT !.state = newState, !.openedAt = t]
      [] newState = StateHalfOpen ->
            [c EXCEPT !.state = newState,
                      !.halfOpenRequests = 0,
                      !.consecutiveSuccesses = 0]
      [] OTHER ->
            [c EXCEPT !.state = newState,
                      !.failures = 0,
                      !.successes = 0,
                      !.totalRequests = 0,
                      !.consecutiveFailures = 0,
                      !.consecutiveSuccesses = 0]

shouldTrip_AboveThreshold(c, cfg) ==
    \/ c.consecutiveFailures > cfg.FailureThreshold
    \/ /\ cfg.RateNum > 0
       /\ c.totalRequests >= cfg.MinRequestsForRate
       /\ c.failures * cfg.RateDen >= cfg.RateNum * c.totalRequests

\* failureRate >= FailureRateThreshold, on the exact fraction.
shouldTrip(c, cfg) ==
    \/ c.consecutiveFailures >= cfg.FailureThreshold
    \/ /\ cfg.RateNum > 0
       /\ c.totalRequests >= cfg.MinRequestsForRate
       /\ c.failures * cfg.RateDen >= cfg.RateNum * c.totalRequests

\* Allow returns the new breaker and the error.
Allow(c, cfg, t) ==
    CASE c.state = StateClosed -> [cb |-> c, err |-> NoError]
      [] c.state = StateOpen ->
            IF t - c.openedAt >= cfg.Timeout
            THEN [cb |-> [transitionTo(c, StateHalfOpen, t)
                            EXCEPT !.halfOpenRequests = 1],
                  err |-> NoError]
            ELSE [cb |-> c, err |-> ErrCircuitOpen]
      [] OTHER ->
            IF c.halfOpenRequests >= cfg.HalfOpenMaxRequests
            THEN [cb |-> c, err |-> ErrTooManyRequests]
            ELSE [cb |-> [c EXCEPT !.halfOpenRequests = @ + 1],
                  err |-> NoError]

RecordSuccess_TotalSuccesses(c, cfg, t) ==
    LET c1 == [c EXCEPT !.successes = @ + 1,
                        !.totalRequests = @ + 1,
                        !.consecutiveSuccesses = @ + 1,
                        !.consecutiveFailures = 0]
    IN CASE c1.state = StateHalfOpen ->
              LET c2 == [c1 EXCEPT !.halfOpenRequests = @ - 1]
              IN IF c2.successes >= cfg.SuccessThreshold
                 THEN transitionTo(c2, StateClosed, t)
                 ELSE c2
         [] c1.state = StateClosed -> [c1 EXCEPT !.consecutiveFailures = 0]
         [] OTHER -> c1

RecordSuccess(c, cfg, t) ==
    LET c1 == [c EXCEPT !.successes = @ + 1,
                        !.totalRequests = @ + 1,
                        !.consecutiveSuccesses = @ + 1,
                        !.consecutiveFailures = 0]
    IN CASE c1.state = StateHalfOpen ->
              LET c2 == [c1 EXCEPT !.halfOpenRequests = @ - 1]
              IN IF c2.consecutiveSuccesses >= cfg.SuccessThreshold
                 THEN transitionTo(c2, StateClosed, t)
                 ELSE c2
         [] c1.state = StateClosed -> [c1 EXCEPT !.consecutiveFailures = 0]
         [] OTHER -> c1

RecordFailure_TripOnly(c, cfg, t) ==
    LET c1 == [c EXCEPT !.failures = @ + 1,
                        !.totalRequests = @ + 1,
                        !.consecutiveFailures = @ + 1,
                        !.consecutiveSuccesses = 0]
    IN CASE c1.state = StateClosed ->
              IF shouldTrip(c1, cfg) THEN transitionTo(c1, StateOpen, t) ELSE c1
         [] c1.state = StateHalfOpen ->
              IF shouldTrip(c1, cfg)
              THEN transitionTo([c1 EXCEPT !.halfOpenRequests = @ - 1],
                                StateOpen, t)
              ELSE [c1 EXCEPT !.halfOpenRequests = @ - 1]
         [] OTHER -> c1

RecordFailure(c, cfg, t) ==
    LET c1 == [c EXCEPT !.failures = @ + 1,
                        !.totalRequests = @ + 1,
                        !.consecutiveFailures = @ + 1,
                        !.consecutiveSuccesses = 0]
    IN CASE c1.state = StateClosed ->
              IF shouldTrip(c1, cfg) THEN transitionTo(c1, StateOpen, t) ELSE c1
         [] c1.state = StateHalfOpen ->
              transitionTo([c1 EXCEPT !.halfOpenRequests = @ - 1], StateOpen, t)
         [] OTHER -> c1

Reset(c, t) == transitionTo(c, StateClosed, t)

BreakerInit ==
    /\ now = 0
    /\ cbConfig \in BreakerConfigs
    /\ cb = NewCircuitBreaker
    /\ cbLast = [op |-> "New", err |-> NoError]

\* The breaker as constructed with DefaultCircuitBreakerConfig and not used.
DefaultCircuitBreakerConfig ==
    [FailureThreshold |-> 5, SuccessThreshold |-> 3, Timeout |-> 30,
     HalfOpenMaxRequests |-> 3, RateNum |-> 1, RateDen |-> 2,
     MinRequestsForRate |-> 10]

BreakerIdle ==
    /\ now = 0
    /\ cbConfig = DefaultCircuitBreakerConfig
    /\ cb = NewCircuitBreaker
    /\ cbLast = [op |-> "New", err |-> NoError]

Tick ==
    /\ now < MaxTime
    /\ now' = now + 1
    /\ cbLast' = [op |-> "Tick", err |-> NoError]
    /\ UNCHANGED <<cbConfig, cb>>

CallAllow ==
    LET r == Allow(cb, cbConfig, now)
    IN /\ cb' = r.cb
       /\ cbLast' = [op |-> "Allow", err |-> r.err]
       /\ UNCHANGED <<now, cbConfig>>

CallRecordSuccess ==
    /\ cb.totalRequests < MaxRequests
    /\ cb' = RecordSuccess(cb, cbConfig, now)
    /\ cbLast' = [op |-> "RecordSuccess", err |-> NoError]
    /\ UNCHANGED <<now, cbConfig>>

CallRecordFailure ==
    /\ cb.totalRequests < MaxRequests
    /\ cb' = RecordFailure(cb, cbConfig, now)
    /\ cbLast' = [op |-> "RecordFailure", err |-> NoError]
    /\ UNCHANGED <<now, cbConfig>>

CallReset ==
    /\ cb' = Reset(cb, now)
    /\ cbLast' = [op |-> "Reset", err |-> NoError]
    /\ UNCHANGED <<now, cbConfig>>

----------------------------------------------------------------------------
(* Backend reconciler (package controller) *)

ctlVars == <<apiBackends, failureCounts, cacheBackends, probeStreak, ctlLast,
             apiRoutes, cacheRoutes>>

HealthStatusHealthy == "Healthy"
HealthStatusUnhealthy == "Unhealthy"
HealthStatusUnknown == "Unknown"

BackendTypeKServe == "kserve"
BackendTypeExternal == "external"
BackendTypeKubernetes == "kubernetes"

Nil == "nil"

\* What r.Get yields for a key that has no object.
NotFound == [NotFound |-> TRUE]

Backends == {"b1", "b2"}

Routes == {"r1"}

\* A type-specific configuration is Nil, present with its required field
\* (url / serviceName) empty, or present with the field set.
FieldEmpty == "empty"
FieldSet == "set"

\* Spec.HealthCheck: a nil pointer, or a HealthCheck with its threshold.
NilHealthCheck == [IsNil |-> TRUE, FailureThreshold |-> 0]

HealthCheck(n) == [IsNil |-> FALSE, FailureThreshold |-> n]

BackendSpec(t, ext, k8s, ks, hc) ==
    [Type |-> t, External |-> ext, Kubernetes |-> k8s, KServe |-> ks,
     HealthCheck |-> hc]

\* The InferenceBackendSpec values operators create and edit Backends with.
BackendSpecs ==
    {BackendSpec(BackendTypeExternal, FieldSet, Nil, Nil, NilHealthCheck),
     BackendSpec(BackendTypeKubernetes, Nil, FieldSet, Nil, HealthCheck(2)),
     BackendSpec(BackendTypeKServe, Nil, Nil, FieldSet, HealthCheck(0)),
     BackendSpec(BackendTypeExternal, FieldEmpty, Nil, Nil, HealthCheck(2)),
     BackendSpec(BackendTypeKServe, Nil, FieldSet, Nil, HealthCheck(2)),
     BackendSpec("", FieldSet, Nil, Nil, NilHealthCheck)}

NewBackend(s) == [Spec |-> s, Health |-> "", Ready |-> ""]

\* TRUE iff validateBackendConfig returns nil.
validateBackendConfig(s) ==
    CASE s.Type = BackendTypeExternal -> s.External = FieldSet
      [] s.Type = BackendTypeKubernetes -> s.Kubernetes = FieldSet
      [] s.Type = BackendTypeKServe -> s.KServe = FieldSet
      [] OTHER -> FALSE

DefaultFailureThreshold == 3

failureThreshold(s) ==
    IF ~s.HealthCheck.IsNil /\ s.HealthCheck.FailureThreshold > 0
    THEN s.HealthCheck.FailureThreshold
    ELSE DefaultFailureThreshold

\* Go map read: a missing key reads as the zero value.
MapGet(m, k) == IF k \in DOMAIN m THEN m[k] ELSE 0

MapSet(m, k, v) == [x \in DOMAIN m \cup {k} |-> IF x = k THEN v ELSE m[x]]

MapDelete(m, k) == [x \in DOMAIN m \ {k} |-> m[x]]

updateFailureCount_NoReset(counts, key, healthy) ==
    IF ~healthy
    THEN MapSet(counts, key, MapGet(counts, key) + 1)
    ELSE MapSet(counts, key, MapGet(counts, key))

\* Reconcile, "Update failure count tracking".
updateFailureCount(counts, key, healthy) ==
    IF ~healthy
    THEN MapSet(counts, key, MapGet(counts, key) + 1)
    ELSE MapSet(counts, key, 0)

determineHealth_OffByOne(healthy, currentFailures, threshold) ==
    IF healthy THEN HealthStatusHealthy
    ELSE IF currentFailures > threshold THEN HealthStatusUnhealthy
    ELSE HealthStatusUnknown

\* Reconcile, "Determine health status based on failure threshold".
determineHealth(healthy, currentFailures, threshold) ==
    IF healthy THEN HealthStatusHealthy
    ELSE IF currentFailures >= threshold THEN HealthStatusUnhealthy
    ELSE HealthStatusUnknown

readyReason(healthStatus) ==
    IF healthStatus = HealthStatusHealthy THEN "BackendReady"
    ELSE "BackendNotReady"

cleanupBackend(counts, key) == MapDelete(counts, key)

SetBackend(store, key, backend) == MapSet(store, key, backend)

Min(a, b) == IF a < b THEN a ELSE b

CtlInit ==
    /\ apiBackends = [b \in Backends |-> NotFound]
    /\ failureCounts = << >>
    /\ cacheBackends = << >>
    /\ probeStreak = [b \in Backends |-> 0]
    /\ ctlLast = [op |-> "none"]
    /\ apiRoutes = [r \in Routes |-> NotFound]
    /\ cacheRoutes = << >>

CreateBackend(b, s) ==
    /\ apiBackends[b] = NotFound
    /\ apiBackends' = [apiBackends EXCEPT ![b] = NewBackend(s)]
    /\ ctlLast' = [op |-> "CreateBackend", key |-> b]
    /\ UNCHANGED <<failureCounts, cacheBackends, probeStreak, apiRoutes,
                   cacheRoutes>>

EditBackend(b, s) ==
    /\ apiBackends[b] # NotFound
    /\ apiBackends[b].Spec # s
    /\ apiBackends' = [apiBackends EXCEPT ![b].Spec = s]
    /\ ctlLast' = [op |-> "EditBackend", key |-> b]
    /\ UNCHANGED <<failureCounts, cacheBackends, probeStreak, apiRoutes,
                   cacheRoutes>>

DeleteBackend(b) ==
    /\ apiBackends[b] # NotFound
    /\ apiBackends' = [apiBackends EXCEPT ![b] = NotFound]
    /\ ctlLast' = [op |-> "DeleteBackend", key |-> b]
    /\ UNCHANGED <<failureCounts, cacheBackends, probeStreak, apiRoutes,
                   cacheRoutes>>

\* Reconcile: r.Get fails with an error other than NotFound.
BackendReconcileGetError(b) ==
    /\ ctlLast' = [op |-> "BackendReconcile", key |-> b, path |-> "getError",
                   err |-> TRUE]
    /\ UNCHANGED <<apiBackends, failureCounts, cacheBackends, probeStreak,
                   apiRoutes, cacheRoutes>>

\* Reconcile: the resource was deleted.
BackendReconcileDeleted(b) ==
    /\ apiBackends[b] = NotFound
    /\ failureCounts' = cleanupBackend(failureCounts, b)
    /\ ctlLast' = [op |-> "BackendReconcile", key |-> b, path |-> "deleted",
                   err |-> FALSE]
    /\ UNCHANGED <<apiBackends, cacheBackends, probeStreak, apiRoutes,
                   cacheRoutes>>

\* Reconcile: validateBackendConfig fails; updateStatusWithError.
BackendReconcileConfigError(b, updateOk) ==
    /\ apiBackends[b] # NotFound
    /\ ~validateBackendConfig(apiBackends[b].Spec)
    /\ IF updateOk
       THEN apiBackends' = [apiBackends EXCEPT
                              ![b].Health = HealthStatusUnhealthy,
                              ![b].Ready = "ConfigurationError"]
       ELSE UNCHANGED apiBackends
    /\ ctlLast' = [op |-> "BackendReconcile", key |-> b,
                   path |-> "configError", err |-> ~updateOk]
    /\ UNCHANGED <<failureCounts, cacheBackends, probeStreak, apiRoutes,
                   cacheRoutes>>

\* Reconcile: the probe ran; healthy is result.Healthy, updateOk tells
\* whether r.Status().Update succeeded.
BackendReconcileProbe(b, healthy, updateOk) ==
    /\ apiBackends[b] # NotFound
    /\ validateBackendConfig(apiBackends[b].Spec)
    /\ healthy \/ MapGet(failureCounts, b) < MaxFailures
    /\ UNCHANGED <<apiRoutes, cacheRoutes>>
    /\ LET counts == updateFailureCount(failureCounts, b, healthy)
           currentFailures == counts[b]
           threshold == failureThreshold(apiBackends[b].Spec)
           healthStatus == determineHealth(healthy, currentFailures, threshold)
           backend == [apiBackends[b] EXCEPT !.Health = healthStatus,
                                             !.Ready = readyReason(healthStatus)]
       IN /\ failureCounts' = counts
          /\ probeStreak' = [probeStreak EXCEPT ![b] =
                               IF healthy THEN 0 ELSE Min(@ + 1, MaxFailures)]
          /\ IF updateOk
             THEN /\ apiBackends' = [apiBackends EXCEPT ![b] = backend]
                  /\ cacheBackends' = SetBackend(cacheBackends, b, backend)
             ELSE UNCHANGED <<apiBackends, cacheBackends>>
          /\ ctlLast' = [op |-> "BackendReconcile", key |-> b,
                         path |-> "probed", err |-> ~updateOk,
                         healthy |-> healthy, health |-> healthStatus]

BackendReconcile(b) ==
    \/ BackendReconcileGetError(b)
    \/ BackendReconcileDeleted(b)
    \/ \E updateOk \in BOOLEAN : BackendReconcileConfigError(b, updateOk)
    \/ \E healthy \in BOOLEAN, updateOk \in BOOLEAN :
          BackendReconcileProbe(b, healthy, updateOk)


----------------------------------------------------------------------------
(* Route reconciler (package controller) *)

PhasePending == "Pending"
PhaseActive == "Active"
PhaseDegraded == "Degraded"
PhaseFailed == "Failed"

NilRef == [IsNil |-> TRUE, Name |-> ""]

BackendRef(n) == [IsNil |-> FALSE, Name |-> n]

NilFallback == [IsNil |-> TRUE, Backends |-> << >>]

FallbackChain(names) == [IsNil |-> FALSE, Backends |-> names]

RouteRule(names) == [Backends |-> [i \in DOMAIN names |-> BackendRef(names[i])]]

ABExperiment(c, t) == [Control |-> c, Treatment |-> t]

RouteSpec(rules, def, fb, exps) ==
    [Rules |-> rules, DefaultBackend |-> def, Fallback |-> fb,
     Experiments |-> exps]

\* The InferenceRouteSpec values operators create and edit Routes with.
RouteSpecs ==
    {RouteSpec(<< >>, NilRef, NilFallback, << >>),
     RouteSpec(<<RouteRule(<<"b1">>)>>, NilRef, FallbackChain(<<"b2">>), << >>),
     RouteSpec(<< >>, BackendRef("b1"), NilFallback,
               <<ABExperiment("b1", "b2")>>),
     RouteSpec(<<RouteRule(<<"b1", "b2">>)>>, BackendRef("b2"),
               FallbackChain(<<"b2", "b2">>), << >>),
     RouteSpec(<< >>, BackendRef("b2"), NilFallback, << >>)}

NoCondition == [Status |-> "", Reason |-> ""]

NewRoute(s) ==
    [Spec |-> s, Phase |-> "", ActiveBackends |-> 0,
     BackendsReady |-> NoCondition, RouteValid |-> NoCondition,
     Ready |-> NoCondition]

Range(f) == {f[i] : i \in DOMAIN f}

\* The set of names collectBackendNames gathers in nameSet.
collectBackendNames(s) ==
    UNION {{ref.Name : ref \in Range(rule.Backends)} : rule \in Range(s.Rules)}
    \cup (IF ~s.DefaultBackend.IsNil THEN {s.DefaultBackend.Name} ELSE {})
    \cup (IF ~s.Fallback.IsNil THEN Range(s.Fallback.Backends) ELSE {})
    \cup UNION {{e.Control, e.Treatment} : e \in Range(s.Experiments)}

determinePhase_HealthyFirst(total, healthy, missing) ==
    IF total = 0 THEN PhasePending
    ELSE IF healthy = 0 THEN PhaseFailed
    ELSE IF healthy < total THEN PhaseDegraded
    ELSE PhaseActive

determinePhase(total, healthy, missing) ==
    IF total = 0 THEN PhasePending
    ELSE IF missing > 0 THEN PhaseFailed
    ELSE IF healthy = 0 THEN PhaseFailed
    ELSE IF healthy < total THEN PhaseDegraded
    ELSE PhaseActive

setBackendsCondition_UnhealthyFirst(missing, unhealthy) ==
    IF missing = {} /\ unhealthy = {}
    THEN [Status |-> "True", Reason |-> "AllBackendsReady"]
    ELSE IF unhealthy # {}
    THEN [Status |-> "False", Reason |-> "BackendsUnhealthy"]
    ELSE [Status |-> "False", Reason |-> "BackendsMissing"]

setBackendsCondition(missing, unhealthy) ==
    IF missing = {} /\ unhealthy = {}
    THEN [Status |-> "True", Reason |-> "AllBackendsReady"]
    ELSE IF missing # {}
    THEN [Status |-> "False", Reason |-> "BackendsMissing"]
    ELSE [Status |-> "False", Reason |-> "BackendsUnhealthy"]

setRouteValidCondition(missing) ==
    IF missing = {}
    THEN [Status |-> "True", Reason |-> "RouteValid"]
    ELSE [Status |-> "False", Reason |-> "InvalidBackendReferences"]

setReadyCondition(phase) ==
    CASE phase = PhaseActive -> [Status |-> "True", Reason |-> "RouteReady"]
      [] phase = PhaseDegraded -> [Status |-> "True", Reason |-> "RouteDegraded"]
      [] phase = PhasePending -> [Status |-> "False", Reason |-> "RoutePending"]
      [] OTHER -> [Status |-> "False", Reason |-> "RouteFailed"]

SetRoute(store, key, route) == MapSet(store, key, route)

DeleteRoute(store, key) == MapDelete(store, key)

CreateRoute(r, s) ==
    /\ apiRoutes[r] = NotFound
    /\ apiRoutes' = [apiRoutes EXCEPT ![r] = NewRoute(s)]
    /\ ctlLast' = [op |-> "CreateRoute", key |-> r]
    /\ UNCHANGED <<apiBackends, failureCounts, cacheBackends, probeStreak,
                   cacheRoutes>>

EditRoute(r, s) ==
    /\ apiRoutes[r] # NotFound
    /\ apiRoutes[r].Spec # s
    /\ apiRoutes' = [apiRoutes EXCEPT ![r].Spec = s]
    /\ ctlLast' = [op |-> "EditRoute", key |-> r]
    /\ UNCHANGED <<apiBackends, failureCounts, cacheBackends, probeStreak,
                   cacheRoutes>>

RemoveRoute(r) ==
    /\ apiRoutes[r] # NotFound
    /\ apiRoutes' = [apiRoutes EXCEPT ![r] = NotFound]
    /\ ctlLast' = [op |-> "RemoveRoute", key |-> r]
    /\ UNCHANGED <<apiBackends, failureCounts, cacheBackends, probeStreak,
                   cacheRoutes>>

\* Reconcile: r.Get of the Route fails with an error other than NotFound.
RouteReconcileGetError(r) ==
    /\ ctlLast' = [op |-> "RouteReconcile", key |-> r, path |-> "getError",
                   err |-> TRUE]
    /\ UNCHANGED <<apiBackends, failureCounts, cacheBackends, probeStreak,
                   apiRoutes, cacheRoutes>>

\* Reconcile: the Route was deleted.
RouteReconcileDeleted(r) ==
    /\ apiRoutes[r] = NotFound
    /\ cacheRoutes' = DeleteRoute(cacheRoutes, r)
    /\ ctlLast' = [op |-> "RouteReconcile", key |-> r, path |-> "deleted",
                   err |-> FALSE]
    /\ UNCHANGED <<apiBackends, failureCounts, cacheBackends, probeStreak,
                   apiRoutes>>

NamespaceDefault == "default"
NamespaceOther == "other"

ObjectNames == {"b1", "b2", "r1", "r2"}

\* The key of an API object: types.NamespacedName{Namespace, Name}.  An
\* object of the default namespace is keyed by its bare name.
NamespacedKey(namespace, name) ==
    IF namespace = NamespaceDefault THEN name ELSE namespace \o "/" \o name

KeyNamespace(key) ==
    IF \E n \in ObjectNames : key = NamespacedKey(NamespaceOther, n)
    THEN NamespaceOther
    ELSE NamespaceDefault

KeyName(key) ==
    IF KeyNamespace(key) = NamespaceDefault
    THEN key
    ELSE CHOOSE n \in ObjectNames : key = NamespacedKey(NamespaceOther, n)

\* Reconcile, r.Get(types.NamespacedName{Name: name, Namespace:
\* route.Namespace}): the Backend of that name in the Route's namespace.
getBackend(api, r, name) ==
    LET key == NamespacedKey(KeyNamespace(r), name)
    IN IF key \in DOMAIN api THEN api[key] ELSE NotFound

\* Reconcile of an existing Route.  getErrs are the referenced names whose
\* r.Get fails with an error other than NotFound; updateOk tells whether
\* r.Status().Update succeeded.
RouteReconcileStatus(r, getErrs, updateOk) ==
    /\ apiRoutes[r] # NotFound
    /\ LET backendNames == collectBackendNames(apiRoutes[r].Spec)
           fetched == backendNames \ getErrs
           missingBackends == {n \in fetched :
                                 getBackend(apiBackends, r, n) = NotFound}
           healthySet == {n \in fetched \ missingBackends :
                            getBackend(apiBackends, r, n).Health =
                                HealthStatusHealthy}
           unhealthyBackends == (fetched \ missingBackends) \ healthySet
           healthyBackends == Cardinality(healthySet)
           phase == determinePhase(Cardinality(backendNames), healthyBackends,
                                   Cardinality(missingBackends))
           route == [apiRoutes[r] EXCEPT
                       !.Phase = phase,
                       !.ActiveBackends = healthyBackends,
                       !.BackendsReady =
                           setBackendsCondition(missingBackends,
                                                unhealthyBackends),
                       !.RouteValid = setRouteValidCondition(missingBackends),
                       !.Ready = setReadyCondition(phase)]
       IN /\ getErrs \subseteq backendNames
          /\ IF updateOk
             THEN /\ apiRoutes' = [apiRoutes EXCEPT ![r] = route]
                  /\ cacheRoutes' = SetRoute(cacheRoutes, r, route)
             ELSE UNCHANGED <<apiRoutes, cacheRoutes>>
          /\ ctlLast' = [op |-> "RouteReconcile", key |-> r,
                         path |-> "status", err |-> ~updateOk,
                         getErrs |-> getErrs, phase |-> phase]
    /\ UNCHANGED <<apiBackends, failureCounts, cacheBackends, probeStreak>>

----------------------------------------------------------------------------
(* Config cache (package cache): the Store over a heap of objects *)

stVars == <<heap, mu, routes, backends, calls, written, stLast>>

\* Goroutines that call the Store: reconcilers and proxy request handlers.
Threads == {"t1", "t2"}
ThreadSeq == <<"t1", "t2">>

StoreKeys == {"k1"}
KeySeq == <<"k1">>

KindRoute == "InferenceRoute"
KindBackend == "InferenceBackend"
Kinds == {KindRoute, KindBackend}

Versions == {"v1", "v2"}

\* An object on the heap: its kind and its two mutable parts.
Object(kind, spec, status) == [Kind |-> kind, Spec |-> spec, Status |-> status]

\* The objects callers build and the contents they assign when they mutate.
WholeObjects(kind) == {Object(kind, v, v) : v \in Versions}

\* Every content an object can have, including a mix of two versions.
AnyObjects(kind) == {Object(kind, a, b) : a \in Versions, b \in Versions}

RouteOps == {"SetRoute", "GetRoute", "DeleteRoute", "ListRoutes"}
BackendOps == {"SetBackend", "GetBackend", "DeleteBackend", "ListBackends"}
SetOps == {"SetRoute", "SetBackend"}
GetOps == {"GetRoute", "GetBackend"}
DeleteOps == {"DeleteRoute", "DeleteBackend"}
ListOps == {"ListRoutes", "ListBackends"}
WriteOps == SetOps \cup DeleteOps

KindOf(op) == IF op \in RouteOps THEN KindRoute ELSE KindBackend

NewStore == [mu |-> [w |-> "none", r |-> {}], routes |-> << >>,
             backends |-> << >>]

\* sync.RWMutex: Lock waits for the writer and all readers to leave,
\* RLock waits for the writer to leave.
CanLock(m) == m.w = "none" /\ m.r = {}

CanRLock_IgnoreWriter(m) == TRUE

CanRLock(m) == m.w = "none"

\* InferenceRoute.DeepCopy / InferenceBackend.DeepCopy: a new object with
\* the same contents, sharing nothing with the original.
DeepCopy(h, p) == [heap |-> Append(h, h[p]), ptr |-> Len(h) + 1]

Store_SetRoute_NoCopy(h, m, key, route) ==
    [heap |-> h, map |-> MapSet(m, key, route)]

Store_SetRoute(h, m, key, route) ==
    LET c == DeepCopy(h, route)
    IN  [heap |-> c.heap, map |-> MapSet(m, key, c.ptr)]

\* The returned pointer is the one-element ptrs; nil, false is the empty one.
Store_GetRoute(h, m, key) ==
    IF key \notin DOMAIN m
    THEN [heap |-> h, ptrs |-> << >>, ok |-> FALSE]
    ELSE LET c == DeepCopy(h, m[key])
         IN  [heap |-> c.heap, ptrs |-> <<c.ptr>>, ok |-> TRUE]

Store_DeleteRoute(m, key) == MapDelete(m, key)

\* order is the order in which range visits the keys of the map.
RECURSIVE Store_ListRoutes(_, _, _)
Store_ListRoutes(h, m, order) ==
    IF order = << >>
    THEN [heap |-> h, ptrs |-> << >>]
    ELSE LET c == DeepCopy(h, m[Head(order)])
             rest == Store_ListRoutes(c.heap, m, Tail(order))
         IN  [heap |-> rest.heap, ptrs |-> <<c.ptr>> \o rest.ptrs]

Store_SetBackend(h, m, key, backend) ==
    LET c == DeepCopy(h, backend)
    IN  [heap |-> c.heap, map |-> MapSet(m, key, c.ptr)]

Store_GetBackend(h, m, key) ==
    IF key \notin DOMAIN m
    THEN [heap |-> h, ptrs |-> << >>, ok |-> FALSE]
    ELSE LET c == DeepCopy(h, m[key])
         IN  [heap |-> c.heap, ptrs |-> <<c.ptr>>, ok |-> TRUE]

Store_DeleteBackend(m, key) == MapDelete(m, key)

RECURSIVE Store_ListBackends(_, _, _)
Store_ListBackends(h, m, order) ==
    IF order = << >>
    THEN [heap |-> h, ptrs |-> << >>]
    ELSE LET c == DeepCopy(h, m[Head(order)])
             rest == Store_ListBackends(c.heap, m, Tail(order))
         IN  [heap |-> rest.heap, ptrs |-> <<c.ptr>> \o rest.ptrs]

\* The orders in which range can visit the keys of a map.
RangeOrders(m) ==
    {o \in [1..Cardinality(DOMAIN m) -> DOMAIN m] :
        \A i, j \in DOMAIN o : i # j => o[i] # o[j]}

\* Pointers are opaque and unreachable objects are collected: the heap is
\* kept as the objects reachable from the Store and from the callers,
\* numbered in the order in which those reach them.
RECURSIVE MapPtrs(_, _)
MapPtrs(m, ks) ==
    IF ks = << >> THEN << >>
    ELSE (IF Head(ks) \in DOMAIN m THEN <<m[Head(ks)]>> ELSE << >>)
         \o MapPtrs(m, Tail(ks))

RECURSIVE HeldPtrs(_, _)
HeldPtrs(th, ts) ==
    IF ts = << >> THEN << >>
    ELSE th[Head(ts)].held \o HeldPtrs(th, Tail(ts))

Roots(rm, bm, th) ==
    MapPtrs(rm, KeySeq) \o MapPtrs(bm, KeySeq) \o HeldPtrs(th, ThreadSeq)

FirstIdx(rs, a) ==
    CHOOSE i \in 1..Len(rs) : rs[i] = a /\ \A j \in 1..(i - 1) : rs[j] # a

NewAddr(rs, a) == Cardinality({rs[j] : j \in 1..FirstIdx(rs, a)})

OldAddr(rs, n) == CHOOSE a \in Range(rs) : NewAddr(rs, a) = n

Collect(h, rm, bm, th) ==
    LET rs == Roots(rm, bm, th)
    IN  [heap |-> [n \in 1..Cardinality(Range(rs)) |-> h[OldAddr(rs, n)]],
         routes |-> [k \in DOMAIN rm |-> NewAddr(rs, rm[k])],
         backends |-> [k \in DOMAIN bm |-> NewAddr(rs, bm[k])],
         calls |-> [t \in Threads |->
                    [th[t] EXCEPT !.held =
                        [i \in 1..Len(th[t].held) |->
                            NewAddr(rs, th[t].held[i])]]]]

Commit(h, rm, bm, th) ==
    LET c == Collect(h, rm, bm, th)
    IN  /\ heap' = c.heap
        /\ routes' = c.routes
        /\ backends' = c.backends
        /\ calls' = c.calls

\* A goroutine between calls, holding the objects in held.
\* shared: the Store was handed the held objects by Set, or handed them
\* out from Get or List.
IdleThread(held, shared) ==
    [pc |-> "idle", op |-> "none", key |-> "none", held |-> held,
     shared |-> shared, clean |-> FALSE, expect |-> NotFound]

StoreInit ==
    /\ heap = << >>
    /\ mu = NewStore.mu
    /\ routes = NewStore.routes
    /\ backends = NewStore.backends
    /\ calls = [t \in Threads |-> IdleThread(<< >>, FALSE)]
    /\ written = [kind \in Kinds |-> [k \in StoreKeys |-> NotFound]]
    /\ stLast = [op |-> "none"]

\* What the map of that kind holds under key, NotFound when it has no entry.
StoreValue(kind, key) ==
    LET m == IF kind = KindRoute THEN routes ELSE backends
    IN  IF key \in DOMAIN m THEN heap[m[key]] ELSE NotFound

\* Another goroutine is inside the write-locked section for the same map.
ConcurrentWriter(t, kind) ==
    \E u \in Threads \ {t} :
        /\ calls[u].pc = "locked"
        /\ calls[u].op \in WriteOps
        /\ KindOf(calls[u].op) = kind

PendingWrite(kind, key) ==
    \E u \in Threads :
        /\ calls[u].pc # "idle"
        /\ calls[u].op \in WriteOps
        /\ KindOf(calls[u].op) = kind
        /\ calls[u].key = key

\* A caller builds an object of its own.
NewObject(t, kind, v) ==
    /\ calls[t].pc = "idle"
    /\ Commit(Append(heap, Object(kind, v, v)), routes, backends,
              [calls EXCEPT ![t] = IdleThread(<<Len(heap) + 1>>, FALSE)])
    /\ stLast' = [op |-> "none"]
    /\ UNCHANGED <<mu, written>>

\* A caller assigns to the fields of an object it holds: one it built, one
\* it passed to Set earlier, or one that Get or List returned.
Mutate(t, i, v) ==
    /\ calls[t].pc = "idle"
    /\ i \in 1..Len(calls[t].held)
    /\ LET p == calls[t].held[i]
           o == Object(heap[p].Kind, v, v)
       IN  /\ heap[p] # o
           /\ heap' = [heap EXCEPT ![p] = o]
           /\ stLast' = [op |-> "Mutate", shared |-> calls[t].shared,
                         old |-> heap[p], new |-> o]
    /\ UNCHANGED <<mu, routes, backends, calls, written>>

\* A goroutine calls a Store method and gets past s.mu.Lock() or
\* s.mu.RLock().  A Set passes the object the caller holds.  clean and expect
\* note, for a Get, that no Set or Delete of its key is in progress when it
\* starts, and what the latest one wrote.
Begin(t, op, key) ==
    /\ calls[t].pc = "idle"
    /\ IF op \in ListOps THEN key = "none" ELSE key \in StoreKeys
    /\ op \in SetOps =>
          /\ Len(calls[t].held) = 1
          /\ heap[calls[t].held[1]].Kind = KindOf(op)
    /\ IF op \in WriteOps
       THEN CanLock(mu) /\ mu' = [mu EXCEPT !.w = t]
       ELSE CanRLock(mu) /\ mu' = [mu EXCEPT !.r = @ \cup {t}]
    /\ LET kind == KindOf(op)
           clean == op \in GetOps /\ ~PendingWrite(kind, key)
       IN  calls' = [u \in Threads |->
                IF u = t
                THEN [calls[t] EXCEPT
                        !.pc = "locked", !.op = op, !.key = key,
                        !.clean = clean,
                        !.expect = IF clean THEN written[kind][key]
                                   ELSE NotFound]
                ELSE IF /\ op \in WriteOps
                        /\ calls[u].op \in GetOps
                        /\ KindOf(calls[u].op) = kind
                        /\ calls[u].key = key
                     THEN [calls[u] EXCEPT !.clean = FALSE,
                                           !.expect = NotFound]
                     ELSE calls[u]]
    /\ stLast' = [op |-> "none"]
    /\ UNCHANGED <<heap, routes, backends, written>>

\* The deferred Unlock / RUnlock.
Release(m, t) ==
    IF calls[t].op \in WriteOps
    THEN [m EXCEPT !.w = "none"]
    ELSE [m EXCEPT !.r = @ \ {t}]

\* SetRoute / SetBackend runs its body and returns.
StoreSet(t) ==
    /\ calls[t].pc = "locked"
    /\ calls[t].op \in SetOps
    /\ LET op == calls[t].op
           key == calls[t].key
           p == calls[t].held[1]
           th == [calls EXCEPT ![t] = IdleThread(calls[t].held, TRUE)]
       IN  /\ IF op = "SetRoute"
              THEN LET res == Store_SetRoute(heap, routes, key, p)
                   IN  Commit(res.heap, res.map, backends, th)
              ELSE LET res == Store_SetBackend(heap, backends, key, p)
                   IN  Commit(res.heap, routes, res.map, th)
           /\ written' = [written EXCEPT ![KindOf(op)][key] = heap[p]]
           /\ stLast' = [op |-> "none"]
    /\ mu' = Release(mu, t)

\* DeleteRoute / DeleteBackend runs its body and returns.
StoreDelete(t) ==
    /\ calls[t].pc = "locked"
    /\ calls[t].op \in DeleteOps
    /\ LET op == calls[t].op
           key == calls[t].key
           th == [calls EXCEPT ![t] = IdleThread(calls[t].held, calls[t].shared)]
       IN  /\ IF op = "DeleteRoute"
              THEN Commit(heap, Store_DeleteRoute(routes, key), backends, th)
              ELSE Commit(heap, routes, Store_DeleteBackend(backends, key), th)
           /\ written' = [written EXCEPT ![KindOf(op)][key] = NotFound]
           /\ stLast' = [op |-> "none"]
    /\ mu' = Release(mu, t)

\* GetRoute / GetBackend runs its body and returns.  A map read that races
\* with a write of the same map can yield anything.
StoreGet(t) ==
    /\ calls[t].pc = "locked"
    /\ calls[t].op \in GetOps
    /\ LET op == calls[t].op
           key == calls[t].key
           kind == KindOf(op)
       IN  \E res \in
              IF ConcurrentWriter(t, kind)
              THEN {[heap |-> heap, ptrs |-> << >>, ok |-> FALSE]} \cup
                   {[heap |-> Append(heap, o), ptrs |-> <<Len(heap) + 1>>,
                     ok |-> TRUE] : o \in AnyObjects(kind)}
              ELSE IF op = "GetRoute"
                   THEN {Store_GetRoute(heap, routes, key)}
                   ELSE {Store_GetBackend(heap, backends, key)} :
              /\ Commit(res.heap, routes, backends,
                        [calls EXCEPT ![t] = IdleThread(res.ptrs, res.ptrs # << >>)])
              /\ stLast' = [op |-> op, key |-> key, ok |-> res.ok,
                            result |-> IF res.ok THEN res.heap[res.ptrs[1]]
                                       ELSE NotFound,
                            clean |-> calls[t].clean,
                            expect |-> calls[t].expect]
    /\ mu' = Release(mu, t)
    /\ UNCHANGED written

\* ListRoutes / ListBackends runs its body and returns.
StoreList(t) ==
    /\ calls[t].pc = "locked"
    /\ calls[t].op \in ListOps
    /\ LET op == calls[t].op
           m == IF op = "ListRoutes" THEN routes ELSE backends
       IN  \E order \in RangeOrders(m) :
              LET res == IF op = "ListRoutes"
                         THEN Store_ListRoutes(heap, m, order)
                         ELSE Store_ListBackends(heap, m, order)
              IN  /\ Commit(res.heap, routes, backends,
                            [calls EXCEPT ![t] = IdleThread(res.ptrs, res.ptrs # << >>)])
                  /\ stLast' = [op |-> op, key |-> "none",
                                results |-> [i \in 1..Len(res.ptrs) |->
                                               res.heap[res.ptrs[i]]]]
    /\ mu' = Release(mu, t)
    /\ UNCHANGED written

----------------------------------------------------------------------------
(* Backend handler (package proxy): ExecuteWithFallback *)

pxVars == <<exec, clientW>>

StatusOK == 200
StatusBadGateway == 502
StatusServiceUnavailable == 503
\* executeRequest fails an attempt whose status code is at least this.
ServerErrorFloor == 500

\* What a backend can do with a proxied request: answer with a status, or
\* not answer at all (connection refused, timeout, cancelled context).
BackendStatuses == {StatusOK, 404, ServerErrorFloor}
Outcomes ==
    {[kind |-> "response", status |-> s] : s \in BackendStatuses}
    \cup {[kind |-> "transportError", status |-> 0]}

NoErr == [kind |-> "nil"]
\* fmt.Errorf("backend %s not found", backendName)
ErrBackendNotFound(name) == [kind |-> "notFound", backend |-> name]
\* fmt.Errorf("backend returned status %d", statusCode)
ErrBackendStatus(code) == [kind |-> "status", code |-> code]
\* fmt.Errorf("failed to build target URL: %w", err)
ErrTargetURL == [kind |-> "targetURL"]

\* The client's http.ResponseWriter.  servedByHeader is the X-Served-By entry
\* of w.Header(); status, servedBy and body are what has gone to the client.
NewResponseWriter ==
    [servedByHeader |-> "", wroteHeader |-> FALSE, status |-> 0,
     servedBy |-> "", body |-> << >>]

\* responseRecorder.WriteHeader passes the call to the client's writer, which
\* sends the status line and the headers once and ignores later calls.
WriteHeader(rw, code) ==
    IF rw.wroteHeader THEN rw
    ELSE [rw EXCEPT !.wroteHeader = TRUE, !.status = code,
                    !.servedBy = rw.servedByHeader]

\* responseRecorder.Write passes the bytes to the client's writer, which
\* sends the header with StatusOK first if none has been sent.
Write(rw, part) ==
    [WriteHeader(rw, StatusOK) EXCEPT !.body = Append(@, part)]

\* http.Error(w, msg, code)
HttpError(rw, msg, code) == Write(WriteHeader(rw, code), msg)

\* TRUE iff buildTargetURL returns a URL.
buildTargetURL(backend) ==
    CASE backend.Spec.Type = BackendTypeExternal ->
            backend.Spec.External = FieldSet
      [] backend.Spec.Type = BackendTypeKubernetes ->
            backend.Spec.Kubernetes # Nil
      [] backend.Spec.Type = BackendTypeKServe ->
            backend.Spec.KServe # Nil
      [] OTHER -> FALSE

\* executeRequest: the reverse proxy copies the backend's response, with
\* X-Served-By set by ModifyResponse, into the recorder around w; on a
\* transport error its ErrorHandler only sets the status code.
executeRequest(rw, backend, name, outcome) ==
    IF ~buildTargetURL(backend)
    THEN [w |-> rw, statusCode |-> 0, err |-> ErrTargetURL]
    ELSE IF outcome.kind = "transportError"
    THEN [w |-> rw, statusCode |-> StatusBadGateway,
          err |-> ErrBackendStatus(StatusBadGateway)]
    ELSE LET statusCode == outcome.status
             rw1 == [rw EXCEPT !.servedByHeader = name]
             rw2 == WriteHeader(rw1, statusCode)
             rw3 == Write(rw2, [from |-> name, status |-> statusCode])
         IN  [w |-> rw3, statusCode |-> statusCode,
              err |-> IF statusCode >= ServerErrorFloor
                      THEN ErrBackendStatus(statusCode) ELSE NoErr]

buildFallbackChain(s, primary) ==
    <<primary>> \o
    (IF s.Fallback.IsNil THEN << >>
     ELSE SelectSeq(s.Fallback.Backends, LAMBDA name : name # primary))

\* The backends Router.HandleRequest can hand over as primary: one of the
\* matched rule's backends or the default backend, or the backend an
\* experiment puts in its place.
primaryCandidates(s) ==
    UNION {{s.Rules[i].Backends[j].Name : j \in DOMAIN s.Rules[i].Backends} :
              i \in DOMAIN s.Rules}
    \cup (IF s.DefaultBackend.IsNil THEN {} ELSE {s.DefaultBackend.Name})
    \cup UNION {{s.Experiments[i].Control, s.Experiments[i].Treatment} :
                   i \in DOMAIN s.Experiments}

\* The frame of ExecuteWithFallback; i counts chain entries from 1.  log
\* notes, per entry the loop has looked at, what it did with it.
IdleHandler ==
    [pc |-> "idle", chain |-> << >>, i |-> 0, lastErr |-> NoErr,
     previousBackend |-> "", end |-> "none", log |-> << >>]

ProxyInit ==
    /\ exec = IdleHandler
    /\ clientW = NewResponseWriter

skipUnhealthy_EvenLast(backend, i, chain) ==
    backend.Health # HealthStatusHealthy

\* backend.Status.Health != "Healthy" && i < len(chain)-1
skipUnhealthy(backend, i, chain) ==
    backend.Health # HealthStatusHealthy /\ i < Len(chain)

\* A request arrives at ExecuteWithFallback with a fresh ResponseWriter.
StartExecute(s, primary) ==
    /\ exec.pc \in {"idle", "done"}
    /\ primary \in primaryCandidates(s)
    /\ exec' = [IdleHandler EXCEPT !.pc = "loop", !.i = 1,
                                 !.chain = buildFallbackChain(s, primary)]
    /\ clientW' = NewResponseWriter

\* One iteration of the loop over the chain, and the http.Error after the
\* loop when it was the last one.
FallbackIteration(outcome) ==
    /\ exec.pc = "loop"
    /\ LET name == exec.chain[exec.i]
           last == exec.i = Len(exec.chain)
           ok == name \in DOMAIN cacheBackends
           skip == ok /\ skipUnhealthy(cacheBackends[name], exec.i, exec.chain)
           attempt == ok /\ ~skip
           res == IF attempt
                  THEN executeRequest(clientW, cacheBackends[name], name,
                                      outcome)
                  ELSE [w |-> clientW, statusCode |-> 0, err |-> NoErr]
           success == attempt /\ res.err = NoErr
           lastErr == IF ~ok THEN ErrBackendNotFound(name)
                      ELSE IF attempt /\ ~success THEN res.err
                      ELSE exec.lastErr
           entry == [backend |-> name,
                     health |-> IF ok THEN cacheBackends[name].Health
                                ELSE "none",
                     result |-> IF ~ok THEN "notFound"
                                ELSE IF skip THEN "skipped"
                                ELSE IF success THEN "ok" ELSE "failed",
                     answered |-> attempt /\ res.w # clientW,
                     statusCode |-> res.statusCode]
           frame == [exec EXCEPT !.lastErr = lastErr,
                               !.previousBackend =
                                   IF attempt /\ ~success THEN name ELSE @,
                               !.log = Append(@, entry)]
       IN  IF success
           THEN /\ exec' = [frame EXCEPT !.pc = "done", !.end = "returned"]
                /\ clientW' = res.w
           ELSE IF ~last
           THEN /\ exec' = IF attempt THEN [frame EXCEPT !.pc = "backoff"]
                         ELSE [frame EXCEPT !.i = @ + 1]
                /\ clientW' = res.w
           ELSE /\ exec' = [frame EXCEPT !.pc = "done", !.end = "allFailed"]
                /\ clientW' = HttpError(res.w,
                                  [msg |-> "All backends failed",
                                   err |-> lastErr],
                                  StatusServiceUnavailable)
    /\ UNCHANGED ctlVars

\* The select between ctx.Done() and the backoff timer.
Backoff(cancelled) ==
    /\ exec.pc = "backoff"
    /\ IF cancelled
       THEN /\ exec' = [exec EXCEPT !.pc = "done", !.end = "cancelled"]
            /\ clientW' = HttpError(clientW, [msg |-> "Request cancelled"],
                              StatusServiceUnavailable)
       ELSE /\ exec' = [exec EXCEPT !.pc = "loop", !.i = @ + 1]
            /\ clientW' = clientW
    /\ UNCHANGED ctlVars

----------------------------------------------------------------------------
(* Circuit breaker manager, Retrier and their composition (package proxy) *)

rtVars == <<retryConfig, breakers, retry, ctxErr>>

\* GetBreaker: the manager's map after the lazy creation of name's breaker.
GetBreaker(m, name) ==
    IF name \in DOMAIN m THEN m ELSE MapSet(m, name, NewCircuitBreaker)

\* CircuitBreakerManager.Allow / RecordSuccess / RecordFailure.
Manager_Allow(m, cfg, name, t) ==
    LET m1 == GetBreaker(m, name)
        r == Allow(m1[name], cfg, t)
    IN  [m |-> MapSet(m1, name, r.cb), err |-> r.err]

Manager_RecordSuccess(m, cfg, name, t) ==
    LET m1 == GetBreaker(m, name)
    IN  MapSet(m1, name, RecordSuccess(m1[name], cfg, t))

Manager_RecordFailure(m, cfg, name, t) ==
    LET m1 == GetBreaker(m, name)
    IN  MapSet(m1, name, RecordFailure(m1[name], cfg, t))

\* Configurations the manager is constructed with.
ManagerConfigs ==
    {cfg \in BreakerConfigs :
        /\ cfg.FailureThreshold = 2 /\ cfg.SuccessThreshold = 1
        /\ cfg.HalfOpenMaxRequests = 1 /\ cfg.RateNum = 0}

\* Errors a RetryableFunc returns and the errors of a context.
ErrCanceled == "context canceled"
ErrDeadlineExceeded == "context deadline exceeded"
ErrConnRefused == "connection refused"
ErrNetTimeout == "i/o timeout"
ErrOther == "failure"

ContextErrors == {ErrCanceled, ErrDeadlineExceeded}
RetryBackends == {"b1"}

FnErrors == {NoError, ErrConnRefused, ErrNetTimeout, ErrOther, ErrCanceled}

\* The same with the other context error.
DoErrors == FnErrors \cup {ErrDeadlineExceeded}

StatusGatewayTimeout == 504
FnStatuses == {0, StatusOK, ServerErrorFloor, StatusServiceUnavailable}

DefaultRetryableStatusCodes ==
    {StatusBadGateway, StatusServiceUnavailable, StatusGatewayTimeout}

\* Configurations the Retrier is constructed with; backoffs are positive.
RetryConfigs ==
    [MaxRetries : 0..MaxRetriesBound,
     RetryableStatusCodes : {DefaultRetryableStatusCodes},
     RetryOnConnectionError : BOOLEAN,
     RetryOnTimeout : BOOLEAN]

NewRetryResult == [Attempts |-> 0, LastError |-> NoError, StatusCode |-> 0]

isRetryableStatusCode_Never(rc, statusCode) == FALSE

isRetryableStatusCode(rc, statusCode) ==
    statusCode \in rc.RetryableStatusCodes

\* ErrConnRefused and ErrNetTimeout are net.Errors; only the latter reports
\* Timeout().
isRetryableError(rc, err) ==
    IF err = NoError THEN FALSE
    ELSE IF err \in ContextErrors THEN FALSE
    ELSE IF rc.RetryOnConnectionError /\ err \in {ErrConnRefused, ErrNetTimeout}
    THEN TRUE
    ELSE IF rc.RetryOnTimeout /\ err = ErrNetTimeout THEN TRUE
    ELSE FALSE

shouldRetry_IgnoreContext(rc, ctx, err, statusCode, attempt) ==
    IF attempt >= rc.MaxRetries THEN FALSE
    ELSE IF isRetryableStatusCode(rc, statusCode) THEN TRUE
    ELSE IF err # NoError THEN isRetryableError(rc, err)
    ELSE FALSE

shouldRetry(rc, ctx, err, statusCode, attempt) ==
    IF attempt >= rc.MaxRetries THEN FALSE
    ELSE IF ctx # NoError THEN FALSE
    ELSE IF isRetryableStatusCode(rc, statusCode) THEN TRUE
    ELSE IF err # NoError THEN isRetryableError(rc, err)
    ELSE FALSE

backoffSelect_TimerOnly(ctx) == "timer"

\* The select between ctx.Done() and time.After(backoff): a context that is
\* done wins over the timer that has not fired yet.
backoffSelect(ctx) == IF ctx # NoError THEN "ctx.Done" ELSE "timer"

rejectedResult_NoError(err) ==
    [Attempts |-> 0, LastError |-> NoError, StatusCode |-> 0]

\* RetryResult{Attempts: 0, LastError: err}
rejectedResult(err) == [Attempts |-> 0, LastError |-> err, StatusCode |-> 0]

\* The frame of RetryWithCircuitBreaker.Execute and of the Retrier.Do it
\* runs.  invocations counts the calls of fn, returned is what the last of
\* them returned, allRetryable tells whether each of them returned a
\* retryable status, recorded what Execute recorded on the breaker,
\* cancelledIn where Do was when the context became done.
IdleRun ==
    [pc |-> "idle", backendName |-> "", attempt |-> 0,
     result |-> NewRetryResult, invocations |-> 0,
     returned |-> [statusCode |-> 0, err |-> NoError], allRetryable |-> TRUE,
     recorded |-> "none", end |-> "none",
     cancelledIn |-> [pc |-> "none", attempt |-> 0]]

RetryInit ==
    /\ retryConfig \in RetryConfigs
    /\ breakers = << >>
    /\ retry = IdleRun
    /\ ctxErr = NoError

RetryIdle ==
    /\ retryConfig = [MaxRetries |-> 3,
                      RetryableStatusCodes |-> DefaultRetryableStatusCodes,
                      RetryOnConnectionError |-> TRUE,
                      RetryOnTimeout |-> TRUE]
    /\ breakers = << >>
    /\ retry = IdleRun
    /\ ctxErr = NoError

\* Do returns result and Execute records it on the breaker.
Finish(frame, result, end) ==
    /\ retry' = [frame EXCEPT !.pc = "done", !.result = result, !.end = end,
                              !.recorded = IF result.LastError # NoError
                                           THEN "failure" ELSE "success"]
    /\ breakers' =
          IF result.LastError # NoError
          THEN Manager_RecordFailure(breakers, cbConfig, frame.backendName, now)
          ELSE Manager_RecordSuccess(breakers, cbConfig, frame.backendName, now)

\* Execute is called with a context: the breaker's gate, and the entry into
\* Do when it admits.
Execute(name, ctx) ==
    /\ retry.pc \in {"idle", "done"}
    /\ IF name \in DOMAIN breakers
       THEN breakers[name].totalRequests < MaxRequests ELSE TRUE
    /\ LET r == Manager_Allow(breakers, cbConfig, name, now)
       IN  /\ breakers' = r.m
           /\ retry' = IF r.err # NoError
                       THEN [IdleRun EXCEPT !.pc = "done",
                                            !.backendName = name,
                                            !.result = rejectedResult(r.err),
                                            !.end = "rejected"]
                       ELSE [IdleRun EXCEPT !.pc = "attempt",
                                            !.backendName = name]
    /\ ctxErr' = ctx
    /\ UNCHANGED retryConfig

\* One pass of Do's loop body up to the backoff: fn is invoked and returns
\* (statusCode, err).
Attempt(statusCode, err) ==
    /\ retry.pc = "attempt"
    /\ LET result == [Attempts |-> retry.attempt + 1,
                      StatusCode |-> statusCode,
                      LastError |-> err]
           frame == [retry EXCEPT
                        !.invocations = @ + 1,
                        !.returned = [statusCode |-> statusCode, err |-> err],
                        !.allRetryable =
                            @ /\ statusCode \in retryConfig.RetryableStatusCodes,
                        !.result = result]
       IN  IF err = NoError /\ ~isRetryableStatusCode(retryConfig, statusCode)
           THEN Finish(frame, result, "success")
           ELSE IF ~shouldRetry(retryConfig, ctxErr, err, statusCode,
                                retry.attempt)
           THEN Finish(frame, result, "exhausted")
           ELSE /\ retry' = [frame EXCEPT !.pc = "backoff"]
                /\ breakers' = breakers
    /\ UNCHANGED <<retryConfig, ctxErr>>

\* The select that ends the backoff, and the loop condition after it.
RetryBackoff ==
    /\ retry.pc = "backoff"
    /\ IF backoffSelect(ctxErr) = "ctx.Done"
       THEN Finish(retry, [retry.result EXCEPT !.LastError = ctxErr],
                   "cancelled")
       ELSE IF retry.attempt + 1 <= retryConfig.MaxRetries
       THEN /\ retry' = [retry EXCEPT !.pc = "attempt", !.attempt = @ + 1]
            /\ breakers' = breakers
       ELSE Finish(retry, retry.result, "exhausted")
    /\ UNCHANGED <<retryConfig, ctxErr>>

\* The caller cancels the context, or its deadline passes, while fn runs or
\* Do sleeps.
CancelContext(err) ==
    /\ retry.pc \in {"attempt", "backoff"}
    /\ ctxErr = NoError
    /\ err \in ContextErrors
    /\ ctxErr' = err
    /\ retry' = [retry EXCEPT !.cancelledIn = [pc |-> retry.pc,
                                                attempt |-> retry.attempt]]
    /\ UNCHANGED <<retryConfig, breakers>>

----------------------------------------------------------------------------
(* Concurrent requests through CircuitBreakerManager.Execute on one breaker *)

rqVars == <<flight>>

\* The requests Allow has admitted and whose result is not recorded yet:
\* closed counts those admitted while the breaker was Closed, probe those
\* admitted by the Allow that left Open or while it was HalfOpen.  stale
\* tells whether a request admitted while Closed was recorded while
\* HalfOpen.
NoRequests == [closed |-> 0, probe |-> 0, stale |-> FALSE]

RequestsInit == flight = NoRequests

InFlight == flight.closed + flight.probe

\* Execute up to the call of fn: the request passes the gate or is turned
\* away.
ExecuteAllow ==
    /\ InFlight < MaxInFlight
    /\ LET r == Allow(cb, cbConfig, now)
       IN  /\ cb' = r.cb
           /\ cbLast' = [op |-> "Allow", err |-> r.err]
           /\ flight' =
                 IF r.err # NoError THEN flight
                 ELSE IF cb.state = StateClosed
                 THEN [flight EXCEPT !.closed = @ + 1]
                 ELSE [flight EXCEPT !.probe = @ + 1]
    /\ UNCHANGED <<now, cbConfig>>

\* Execute from the return of fn: the result of one admitted request is
\* recorded.
ExecuteRecord(admittedAs, failed) ==
    /\ flight[admittedAs] > 0
    /\ cb.totalRequests < MaxRequests
    /\ cb' = IF failed THEN RecordFailure(cb, cbConfig, now)
             ELSE RecordSuccess(cb, cbConfig, now)
    /\ cbLast' = [op |-> IF failed THEN "RecordFailure" ELSE "RecordSuccess",
                  err |-> NoError]
    /\ flight' = [flight EXCEPT
                     ![admittedAs] = @ - 1,
                     !.stale = @ \/ (admittedAs = "closed"
                                     /\ cb.state = StateHalfOpen)]
    /\ UNCHANGED <<now, cbConfig>>

----------------------------------------------------------------------------
(* Rate limiter (package proxy) *)

rlVars == <<limiters, rlCall, rlWindow, rlLast>>

\* Tokens are counted in sixtieths: a bucket whose limit is rpm / 60 tokens
\* per second gains rpm sixtieths each second.
SecondsPerMinute == 60

\* rate.NewLimiter(rate.Limit(rps), burst): the bucket starts full.
NewLimiter(rpm, burst) ==
    [limit |-> rpm, burst |-> burst, tokens |-> burst * SecondsPerMinute]

\* The bucket one second later.
advance(b) ==
    [b EXCEPT !.tokens = Min(b.burst * SecondsPerMinute, @ + b.limit)]

limiterAllow_HalfToken(b) ==
    IF b.tokens >= SecondsPerMinute
    THEN [b |-> [b EXCEPT !.tokens = @ - 30], ok |-> TRUE]
    ELSE [b |-> b, ok |-> FALSE]

\* limiter.Allow(): takes one token when the bucket holds one.
limiterAllow(b) ==
    IF b.tokens >= SecondsPerMinute
    THEN [b |-> [b EXCEPT !.tokens = @ - SecondsPerMinute], ok |-> TRUE]
    ELSE [b |-> b, ok |-> FALSE]

\* reservation.Delay() of limiter.Reserve(), in whole seconds rounded up.
reserveDelay(b) ==
    CHOOSE d \in 0..SecondsPerMinute :
        /\ b.tokens + d * b.limit >= SecondsPerMinute
        /\ \A e \in 0..(d - 1) : b.tokens + e * b.limit < SecondsPerMinute

\* limiter.Reserve(): takes one token, into debt when the bucket holds
\* less, and tells how long until the debt is refilled.
limiterReserve(b) ==
    [b |-> [b EXCEPT !.tokens = @ - SecondsPerMinute],
     delay |-> reserveDelay(b)]

reservationCancel_Keep(b) == b

\* reservation.Cancel() right after Reserve(): the reserved token is given
\* back, up to the burst.
reservationCancel(b) ==
    [b EXCEPT !.tokens = Min(b.burst * SecondsPerMinute, @ + SecondsPerMinute)]

NilRateLimit == [IsNil |-> TRUE, RequestsPerMinute |-> 0, PerUser |-> FALSE]

RateLimitConfig(rpm, perUser) ==
    [IsNil |-> FALSE, RequestsPerMinute |-> rpm, PerUser |-> perUser]

\* lastAccess holds, per user key, the reading of time.Now() at its last
\* Allow.
NewRateLimiter ==
    [routeLimiters |-> << >>, userLimiters |-> << >>, lastAccess |-> << >>]

getOrCreateLimiter(m, key, rpm, burst) ==
    IF key \in DOMAIN m THEN m ELSE MapSet(m, key, NewLimiter(rpm, burst))

\* The check on one table of limiters, and the result built from it.
checkLimiter(m, key, config) ==
    LET rpm == config.RequestsPerMinute
        m1 == getOrCreateLimiter(m, key, rpm, rpm)
        r == limiterAllow(m1[key])
        reservation == limiterReserve(m1[key])
    IN  IF ~r.ok
        THEN [m |-> MapSet(m1, key, reservationCancel(reservation.b)),
              result |-> [Allowed |-> FALSE, Limit |-> rpm, Remaining |-> 0,
                          RetryAfter |-> reservation.delay]]
        ELSE [m |-> MapSet(m1, key, r.b),
              result |-> [Allowed |-> TRUE, Limit |-> rpm,
                          Remaining |-> r.b.tokens \div SecondsPerMinute,
                          RetryAfter |-> 0]]

\* The key of the bucket Allow works on, "" when no limit is configured.
bucketKey(routeName, userID, config) ==
    IF config.IsNil \/ config.RequestsPerMinute <= 0 THEN ""
    ELSE IF config.PerUser /\ userID # "" THEN routeName \o ":" \o userID
    ELSE routeName

RateLimiter_Allow_RouteToo(rl, routeName, userID, config) ==
    IF config.IsNil \/ config.RequestsPerMinute <= 0
    THEN [rl |-> rl,
          result |-> [Allowed |-> TRUE, Limit |-> 0, Remaining |-> 0,
                      RetryAfter |-> 0]]
    ELSE LET c == checkLimiter(rl.routeLimiters, routeName, config)
             u == checkLimiter(rl.userLimiters, routeName \o ":" \o userID,
                               config)
         IN  IF config.PerUser /\ userID # ""
             THEN [rl |-> [routeLimiters |-> c.m, userLimiters |-> u.m,
                           lastAccess |->
                              MapSet(rl.lastAccess, routeName \o ":" \o userID,
                                     now)],
                   result |-> u.result]
             ELSE [rl |-> [rl EXCEPT !.routeLimiters = c.m],
                   result |-> c.result]

\* RateLimiter.Allow returns the limiter's tables and the result.
RateLimiter_Allow(rl, routeName, userID, config) ==
    IF config.IsNil \/ config.RequestsPerMinute <= 0
    THEN [rl |-> rl,
          result |-> [Allowed |-> TRUE, Limit |-> 0, Remaining |-> 0,
                      RetryAfter |-> 0]]
    ELSE IF config.PerUser /\ userID # ""
    THEN LET c == checkLimiter(rl.userLimiters, routeName \o ":" \o userID,
                               config)
         IN  [rl |-> [rl EXCEPT !.userLimiters = c.m,
                                !.lastAccess =
                                    MapSet(@, routeName \o ":" \o userID, now)],
              result |-> c.result]
    ELSE LET c == checkLimiter(rl.routeLimiters, routeName, config)
         IN  [rl |-> [rl EXCEPT !.routeLimiters = c.m], result |-> c.result]

\* The callers: an anonymous and a named user on routes limited per route
\* or per user, at 2, 60 and 120 requests per minute.
RateCalls ==
    {[routeName |-> "r1", userID |-> "", config |-> RateLimitConfig(2, FALSE)],
     [routeName |-> "r1", userID |-> "u1", config |-> RateLimitConfig(2, TRUE)],
     [routeName |-> "r1", userID |-> "", config |-> RateLimitConfig(60, TRUE)],
     [routeName |-> "r1", userID |-> "u1", config |-> RateLimitConfig(60, TRUE)],
     [routeName |-> "r1", userID |-> "u1",
      config |-> RateLimitConfig(120, FALSE)]}

\* The requests of one caller on one route: rlWindow counts the requests
\* admitted at the current instant and one second earlier, and whether a
\* second has passed at all.
LimiterInit ==
    /\ limiters = NewRateLimiter
    /\ rlCall \in RateCalls
    /\ rlWindow = [prev |-> 0, cur |-> 0, elapsed |-> FALSE]
    /\ rlLast = [Allowed |-> TRUE, Limit |-> 0, Remaining |-> 0,
                 RetryAfter |-> 0]

LimiterIdle ==
    /\ limiters = NewRateLimiter
    /\ rlCall = [routeName |-> "r1", userID |-> "", config |-> NilRateLimit]
    /\ rlWindow = [prev |-> 0, cur |-> 0, elapsed |-> FALSE]
    /\ rlLast = [Allowed |-> TRUE, Limit |-> 0, Remaining |-> 0,
                 RetryAfter |-> 0]

\* A request reaches the limiter.
RateAllow ==
    LET r == RateLimiter_Allow(limiters, rlCall.routeName, rlCall.userID,
                               rlCall.config)
    IN  /\ limiters' = r.rl
        /\ rlLast' = r.result
        /\ rlWindow' = IF r.result.Allowed
                       THEN [rlWindow EXCEPT !.cur = @ + 1]
                       ELSE rlWindow
        /\ UNCHANGED rlCall

\* One second passes.
RateTick ==
    /\ limiters' =
          [routeLimiters |->
              [k \in DOMAIN limiters.routeLimiters |->
                  advance(limiters.routeLimiters[k])],
           userLimiters |->
              [k \in DOMAIN limiters.userLimiters |->
                  advance(limiters.userLimiters[k])],
           lastAccess |-> limiters.lastAccess]
    /\ rlWindow' = [prev |-> rlWindow.cur, cur |-> 0, elapsed |-> TRUE]
    /\ UNCHANGED <<rlCall, rlLast>>

\* The routes and the users whose requests reach the limiter; "" is a
\* request without the user header.
LimitedRoutes == {"r1", "r2"}

UserIDs == {"", "u1", "u2"}

\* The rate limit of a route: none, or one request per minute counted per
\* route or per user.
RouteRateLimits ==
    {NilRateLimit, RateLimitConfig(1, FALSE), RateLimitConfig(1, TRUE)}

\* A request of any user on any route reaches the limiter.
RateAllowCall(routeName, userID, config) ==
    LET r == RateLimiter_Allow(limiters, routeName, userID, config)
    IN  /\ limiters' = r.rl
        /\ rlLast' = r.result
        /\ rlCall' = [routeName |-> routeName, userID |-> userID,
                      config |-> config]
        /\ UNCHANGED rlWindow

----------------------------------------------------------------------------
(* Proxy server and router (package proxy) *)

svVars == <<routeCache, srv>>

StatusNotFound == 404
StatusRequestEntityTooLarge == 413
StatusTooManyRequests == 429

NamespacedName(namespace, name) == [Namespace |-> namespace, Name |-> name]

\* What the server and the router read of a cached InferenceRoute;
\* DefaultBackend stands for the backends the request would be sent to.
CachedRoute(namespace, name, phase, rateLimit, def) ==
    [IsNil |-> FALSE, Namespace |-> namespace, Name |-> name, Phase |-> phase,
     RateLimit |-> rateLimit, DefaultBackend |-> def]

NoRoute ==
    [IsNil |-> TRUE, Namespace |-> "", Name |-> "", Phase |-> "",
     RateLimit |-> NilRateLimit, DefaultBackend |-> NilRef]

RoutePhases == {PhasePending, PhaseActive, PhaseDegraded, PhaseFailed}

\* The routes the reconciler puts in the cache: r1 of namespace default is
\* limited per user, r2 is not limited and Pending or Degraded, r1 of
\* namespace prod has no backend.
ServedRoutes ==
    {CachedRoute("default", "r1", phase, RateLimitConfig(1, TRUE),
                 BackendRef("b1")) : phase \in RoutePhases}
    \cup {CachedRoute("default", "r2", phase, NilRateLimit, BackendRef("b1")) :
            phase \in {PhasePending, PhaseDegraded}}
    \cup {CachedRoute("prod", "r1", PhaseActive, NilRateLimit, NilRef)}

\* The headers of a request that the server and the router read, and
\* whether its body exceeds MaxRequestBodySize.
Request(xRoute, xNamespace, userID, tooLarge) ==
    [XRoute |-> xRoute, XNamespace |-> xNamespace, XUserID |-> userID,
     TooLarge |-> tooLarge]

HttpRequests ==
    {Request("", "", "u1", FALSE), Request("", "", "", FALSE),
     Request("r1", "", "u1", FALSE), Request("r2", "", "u1", FALSE),
     Request("r2", "prod", "", FALSE), Request("", "prod", "u1", FALSE),
     Request("r1", "default", "u1", TRUE)}

isOperational_FailedOnly(route) == route.Phase # PhaseFailed

\* The routes the loop of findMatchingRoute does not skip.
isOperational(route) ==
    ~(route.Phase = PhaseFailed \/ route.Phase = PhasePending)

findMatchingRoute_FallBack(cache, req) ==
    LET namespace == IF req.XNamespace = "" THEN "default" ELSE req.XNamespace
        key == NamespacedName(namespace, req.XRoute)
        listed == {cache[k] : k \in {j \in DOMAIN cache :
                                        j.Namespace = namespace}}
        kept == {route \in listed : isOperational(route)}
    IN  IF req.XRoute # "" /\ key \in DOMAIN cache THEN {cache[key]}
        ELSE IF kept = {} THEN {NoRoute} ELSE kept

\* The routes findMatchingRoute can return, NoRoute for (nil, false): the
\* order of ListRoutesInNamespace is the order of a map iteration, so the
\* first route the loop keeps can be any of the routes it would keep.
findMatchingRoute(cache, req) ==
    LET namespace == IF req.XNamespace = "" THEN "default" ELSE req.XNamespace
        key == NamespacedName(namespace, req.XRoute)
        listed == {cache[k] : k \in {j \in DOMAIN cache :
                                        j.Namespace = namespace}}
        kept == {route \in listed : isOperational(route)}
    IN  IF req.XRoute # ""
        THEN IF key \in DOMAIN cache THEN {cache[key]} ELSE {NoRoute}
        ELSE IF kept = {} THEN {NoRoute} ELSE kept

NoRequest == Request("", "", "", FALSE)

\* A request in the server: pc tells where ServeHTTP stands, found is the
\* route FindRoute returned, checked and result tell whether the limiter was
\* asked and what it answered, handled tells whether HandleRequest was
\* called and served the route ExecuteWithFallback was called with; turn
\* alternates from one request to the next.
NoResult ==
    [Allowed |-> TRUE, Limit |-> 0, Remaining |-> 0, RetryAfter |-> 0]

IdleServer ==
    [pc |-> "idle", req |-> NoRequest, found |-> NoRoute, checked |-> FALSE,
     result |-> NoResult, status |-> 0, header |-> << >>, handled |-> FALSE,
     served |-> NoRoute, turn |-> 0]

ServerInit ==
    /\ routeCache = << >>
    /\ srv = IdleServer

denyResponse_PassOn(w, result) ==
    [w EXCEPT !.pc = "handle",
              !.header = MapSet(MapSet(MapSet(@,
                  "X-RateLimit-Limit", result.Limit),
                  "X-RateLimit-Remaining", result.Remaining),
                  "Retry-After", result.RetryAfter + 1)]

\* ServeHTTP on a denied request: the three headers, 429, and return.
denyResponse(w, result) ==
    [w EXCEPT !.pc = "done",
              !.status = StatusTooManyRequests,
              !.header = MapSet(MapSet(MapSet(@,
                  "X-RateLimit-Limit", result.Limit),
                  "X-RateLimit-Remaining", result.Remaining),
                  "Retry-After", result.RetryAfter + 1)]

\* ServeHTTP on an admitted request: two headers, and on to the router.
admitResponse(w, result) ==
    [w EXCEPT !.pc = "handle",
              !.header = MapSet(MapSet(@,
                  "X-RateLimit-Limit", result.Limit),
                  "X-RateLimit-Remaining", result.Remaining)]

\* The Route reconciler as the server sees it: a reconcile that stores the
\* route with Cache.SetRoute, and the reconcile of a deleted Route, which
\* calls Cache.DeleteRoute and nothing else.
CacheSetRoute(route) ==
    /\ routeCache' = MapSet(routeCache,
                            NamespacedName(route.Namespace, route.Name), route)
    /\ UNCHANGED srv

CacheDeleteRoute(key) ==
    /\ key \in DOMAIN routeCache
    /\ routeCache' = MapDelete(routeCache, key)
    /\ UNCHANGED srv

\* ServeHTTP up to the call of Router.HandleRequest.
ServeHTTP(req) ==
    /\ srv.pc # "handle"
    /\ \E route \in findMatchingRoute(routeCache, req) :
          LET w == [IdleServer EXCEPT !.req = req, !.found = route,
                                      !.turn = 1 - srv.turn]
              r == RateLimiter_Allow(limiters, route.Name, req.XUserID,
                                     route.RateLimit)
          IN  IF req.TooLarge
              THEN /\ srv' = [IdleServer EXCEPT
                                 !.pc = "done", !.req = req,
                                 !.turn = 1 - srv.turn,
                                 !.status = StatusRequestEntityTooLarge]
                   /\ UNCHANGED rlVars
              ELSE IF ~route.IsNil /\ ~route.RateLimit.IsNil
              THEN /\ limiters' = r.rl
                   /\ rlLast' = r.result
                   /\ rlCall' = [routeName |-> route.Name,
                                 userID |-> req.XUserID,
                                 config |-> route.RateLimit]
                   /\ UNCHANGED rlWindow
                   /\ srv' = IF ~r.result.Allowed
                             THEN denyResponse(
                                      [w EXCEPT !.checked = TRUE,
                                                !.result = r.result],
                                      r.result)
                             ELSE admitResponse(
                                      [w EXCEPT !.checked = TRUE,
                                                !.result = r.result],
                                      r.result)
              ELSE /\ srv' = [w EXCEPT !.pc = "handle"]
                   /\ UNCHANGED rlVars
    /\ UNCHANGED routeCache

\* Router.HandleRequest; status is what ExecuteWithFallback answers.
HandleRequest(status) ==
    /\ srv.pc = "handle"
    /\ \E route \in findMatchingRoute(routeCache, srv.req) :
          srv' = IF route.IsNil
                 THEN [srv EXCEPT !.pc = "done", !.handled = TRUE,
                                  !.status = StatusNotFound]
                 ELSE IF route.Phase = PhaseFailed
                           \/ route.DefaultBackend.IsNil
                 THEN [srv EXCEPT !.pc = "done", !.handled = TRUE,
                                  !.status = StatusServiceUnavailable]
                 ELSE [srv EXCEPT !.pc = "done", !.handled = TRUE,
                                  !.status = status, !.served = route]
    /\ UNCHANGED routeCache

----------------------------------------------------------------------------
(* Experiment manager (package proxy) *)

exVars == <<emMetrics, exSeen, exLast>>

VariantControl == "control"
VariantTreatment == "treatment"

DefaultTrafficPercent == 10
BucketCount == 100

\* Strings that are hashed are sequences of bytes.
BytesU1 == <<117, 49>>
BytesU2 == <<117, 50>>
BytesAddr == <<49, 58, 57>>
BytesE == <<101>>
BytesF == <<102>>

\* hash/fnv 32a: the 32-bit state is kept as two 16-bit halves; the offset
\* basis is 0x811C9DC5 and the prime is 2^24 + 0x193.
FnvPrimeLow == 403

New32a == [hi |-> 33052, lo |-> 40389]

RECURSIVE xor(_, _)
xor(a, b) ==
    IF a = 0 THEN b
    ELSE IF b = 0 THEN a
    ELSE 2 * xor(a \div 2, b \div 2) + ((a + b) % 2)

\* One byte written: the state is xored with the byte, then multiplied by
\* the prime modulo 2^32.
fnvWriteByte(h, byte) ==
    LET lo == xor(h.lo, byte)
        p == lo * FnvPrimeLow
    IN  [lo |-> p % 65536,
         hi |-> (h.hi * FnvPrimeLow + p \div 65536 + (lo % 256) * 256) % 65536]

RECURSIVE fnvWrite(_, _)
fnvWrite(h, bytes) ==
    IF bytes = << >> THEN h
    ELSE fnvWrite(fnvWriteByte(h, Head(bytes)), Tail(bytes))

\* h.Sum32() % 100 of userID + ":" + experimentName.
calculateBucket(userID, experimentName) ==
    LET h == fnvWrite(New32a, userID \o <<58>> \o experimentName)
    IN  ((h.hi % BucketCount) * (65536 % BucketCount) + (h.lo % BucketCount))
            % BucketCount

ABTest(name, control, treatment, trafficPercent) ==
    [IsNil |-> FALSE, Name |-> name, Control |-> control,
     Treatment |-> treatment, TrafficPercent |-> trafficPercent]

NilExperiment ==
    [IsNil |-> TRUE, Name |-> << >>, Control |-> "", Treatment |-> "",
     TrafficPercent |-> 0]

\* The experiments requests are assigned in: e sends the default share to
\* b2, f sends 80 percent to b2.
Experiments ==
    {ABTest(BytesE, "b1", "b2", 0), ABTest(BytesF, "b1", "b2", 80),
     NilExperiment}

\* What getUserID reads of a request.
ExperimentRequest(xUserID, authorization, remoteAddr) ==
    [XUserID |-> xUserID, Authorization |-> authorization,
     RemoteAddr |-> remoteAddr]

ExperimentRequests ==
    {ExperimentRequest(BytesU1, << >>, BytesAddr),
     ExperimentRequest(<< >>, BytesU1, BytesAddr),
     ExperimentRequest(BytesU2, BytesU1, BytesAddr),
     ExperimentRequest(<< >>, << >>, BytesAddr)}

getUserID(req) ==
    IF req.XUserID # << >> THEN req.XUserID
    ELSE IF req.Authorization # << >> THEN req.Authorization
    ELSE req.RemoteAddr

\* The counter of assignments per experiment and variant.
RecordExperimentAssignment(em, name, variant) ==
    LET key == [experiment |-> name, variant |-> variant]
    IN  MapSet(em, key, MapGet(em, key) + 1)

EmptyResult == [Backend |-> "", Variant |-> "", Experiment |-> << >>]

GetBackend_LeastLoaded(em, experiment, req) ==
    IF experiment.IsNil THEN [em |-> em, result |-> EmptyResult]
    ELSE LET treated ==
                 MapGet(em, [experiment |-> experiment.Name,
                             variant |-> VariantTreatment])
                 < MapGet(em, [experiment |-> experiment.Name,
                               variant |-> VariantControl])
             variant == IF treated THEN VariantTreatment ELSE VariantControl
         IN  [em |-> RecordExperimentAssignment(em, experiment.Name, variant),
              result |-> [Backend |-> IF treated THEN experiment.Treatment
                                      ELSE experiment.Control,
                          Variant |-> variant,
                          Experiment |-> experiment.Name]]

\* GetBackend returns the manager's metrics and the ExperimentResult.
GetBackend(em, experiment, req) ==
    IF experiment.IsNil THEN [em |-> em, result |-> EmptyResult]
    ELSE LET userID == getUserID(req)
             bucket == calculateBucket(userID, experiment.Name)
             trafficPercent == IF experiment.TrafficPercent <= 0
                               THEN DefaultTrafficPercent
                               ELSE experiment.TrafficPercent
             treated == bucket < trafficPercent
             variant == IF treated THEN VariantTreatment ELSE VariantControl
         IN  [em |-> RecordExperimentAssignment(em, experiment.Name, variant),
              result |-> [Backend |-> IF treated THEN experiment.Treatment
                                      ELSE experiment.Control,
                          Variant |-> variant,
                          Experiment |-> experiment.Name]]

\* exSeen keeps every call made with its result, exLast the last call and
\* the number of calls so far.
ExperimentInit ==
    /\ emMetrics = << >>
    /\ exSeen = {}
    /\ exLast = [experiment |-> NilExperiment,
                 req |-> ExperimentRequest(<< >>, << >>, << >>),
                 result |-> EmptyResult, n |-> 0]

\* A request reaches GetBackend.
CallGetBackend(experiment, req) ==
    LET r == GetBackend(emMetrics, experiment, req)
    IN  /\ exLast.n < MaxAssignments
        /\ emMetrics' = r.em
        /\ exSeen' = exSeen \cup {[experiment |-> experiment, req |-> req,
                                   result |-> r.result]}
        /\ exLast' = [experiment |-> experiment, req |-> req,
                      result |-> r.result, n |-> exLast.n + 1]

----------------------------------------------------------------------------
(* Cost tracker (package proxy) *)

costVars == <<costs, costMu, costCalls, costExpected, costLast>>

TokensPerPrice == 1000

TokenUsage(input, output) == [InputTokens |-> input, OutputTokens |-> output]

\* A CostConfig: prices are whole numbers, 0 standing for a price that is
\* empty or does not parse, which adds nothing to the cost.
NilCostConfig ==
    [IsNil |-> TRUE, InputTokenCost |-> 0, OutputTokenCost |-> 0,
     RequestCost |-> 0, Currency |-> ""]

CostConfig(input, output, request, currency) ==
    [IsNil |-> FALSE, InputTokenCost |-> input, OutputTokenCost |-> output,
     RequestCost |-> request, Currency |-> currency]

\* calculateCost, in thousandths of the currency unit.
calculateCost(usage, config) ==
    usage.InputTokens * config.InputTokenCost
    + usage.OutputTokens * config.OutputTokenCost
    + config.RequestCost * TokensPerPrice

NewCostStats(currency) ==
    [TotalCost |-> 0, TotalRequests |-> 0, TotalInputTokens |-> 0,
     TotalOutputTokens |-> 0, Currency |-> currency]

NewCostTracker == [routeCosts |-> << >>, backendCosts |-> << >>]

\* updateStats up to the reads of the entry's fields: the entry of key, a
\* new one when there is none.
loadStats(stats, key, currency) ==
    IF key \in DOMAIN stats THEN stats[key] ELSE NewCostStats(currency)

\* The sums updateStats writes back.
addUsage(s, usage, cost) ==
    [s EXCEPT !.TotalCost = @ + cost,
              !.TotalRequests = @ + 1,
              !.TotalInputTokens = @ + usage.InputTokens,
              !.TotalOutputTokens = @ + usage.OutputTokens]

CostThreads == {"t1", "t2"}

CostRoutes == {"r1", "r2"}

CostBackends == {"b1"}

Usages == {TokenUsage(1, 2), TokenUsage(2, 0)}

CostConfigs == {NilCostConfig, CostConfig(1, 2, 1, ""), CostConfig(0, 0, 0, "EUR")}

IdleCostCall ==
    [pc |-> "idle", route |-> "", backend |-> "", usage |-> TokenUsage(0, 0),
     cost |-> 0, currency |-> "", loaded |-> NewCostStats("")]

\* costExpected counts, per key, the calls with a cost config that have
\* returned since the last Reset.
NoTally == [n |-> 0, input |-> 0, output |-> 0]

CostInit ==
    /\ costs = NewCostTracker
    /\ costMu = "free"
    /\ costCalls = [t \in CostThreads |-> IdleCostCall]
    /\ costExpected = [routes |-> << >>, backends |-> << >>]
    /\ costLast = [op |-> "none", thread |-> "", started |-> 0]

costCanLock_NoLock(holder, t) == TRUE

\* c.mu.Lock() returns for goroutine t when nobody holds the mutex.
costCanLock(holder, t) == holder = "free"

tally(expected, key, usage) ==
    LET old == IF key \in DOMAIN expected THEN expected[key] ELSE NoTally
    IN  MapSet(expected, key,
               [n |-> old.n + 1, input |-> old.input + usage.InputTokens,
                output |-> old.output + usage.OutputTokens])

\* TrackRequest with a nil cost config returns at once.
TrackRequestNil(t, route, backend, usage) ==
    /\ costCalls[t].pc = "idle"
    /\ costLast.started < MaxTracked
    /\ costLast' = [op |-> "TrackRequestNil", thread |-> t,
                    started |-> costLast.started + 1]
    /\ UNCHANGED <<costs, costMu, costCalls, costExpected>>

\* TrackRequest up to c.mu.Lock(): the cost and the currency are computed.
TrackRequestBegin(t, route, backend, usage, config) ==
    /\ costCalls[t].pc = "idle"
    /\ ~config.IsNil
    /\ costLast.started < MaxTracked
    /\ costCalls' = [costCalls EXCEPT ![t] =
           [IdleCostCall EXCEPT
               !.pc = "lock", !.route = route, !.backend = backend,
               !.usage = usage, !.cost = calculateCost(usage, config),
               !.currency = IF config.Currency = "" THEN "USD"
                            ELSE config.Currency]]
    /\ costLast' = [op |-> "TrackRequest", thread |-> t,
                    started |-> costLast.started + 1]
    /\ UNCHANGED <<costs, costMu, costExpected>>

\* The mutex is taken and updateStats reads the route's entry.
TrackRequestLock(t) ==
    /\ costCalls[t].pc = "lock"
    /\ costCanLock(costMu, t)
    /\ costMu' = t
    /\ costCalls' = [costCalls EXCEPT
           ![t].pc = "route",
           ![t].loaded = loadStats(costs.routeCosts, costCalls[t].route,
                                   costCalls[t].currency)]
    /\ costLast' = [costLast EXCEPT !.op = "Lock", !.thread = t]
    /\ UNCHANGED <<costs, costExpected>>

\* updateStats writes the route's entry and reads the backend's entry.
TrackRequestRoute(t) ==
    /\ costCalls[t].pc = "route"
    /\ LET c == costCalls[t]
           routeCosts == MapSet(costs.routeCosts, c.route,
                                addUsage(c.loaded, c.usage, c.cost))
       IN  /\ costs' = [costs EXCEPT !.routeCosts = routeCosts]
           /\ costCalls' = [costCalls EXCEPT
                  ![t].pc = "backend",
                  ![t].loaded = loadStats(costs.backendCosts, c.backend,
                                          c.currency)]
    /\ costLast' = [costLast EXCEPT !.op = "updateStats", !.thread = t]
    /\ UNCHANGED <<costMu, costExpected>>

\* updateStats writes the backend's entry; the mutex is released and
\* TrackRequest returns.
TrackRequestBackend(t) ==
    /\ costCalls[t].pc = "backend"
    /\ LET c == costCalls[t]
       IN  /\ costs' = [costs EXCEPT !.backendCosts =
                  MapSet(@, c.backend, addUsage(c.loaded, c.usage, c.cost))]
           /\ costExpected' =
                  [routes |-> tally(costExpected.routes, c.route, c.usage),
                   backends |-> tally(costExpected.backends, c.backend,
                                      c.usage)]
    /\ costMu' = IF costMu = t THEN "free" ELSE costMu
    /\ costCalls' = [costCalls EXCEPT ![t] = IdleCostCall]
    /\ costLast' = [costLast EXCEPT !.op = "Unlock", !.thread = t]

\* Reset, called from outside the request goroutines.
CostReset ==
    /\ costCanLock(costMu, "reset")
    /\ costLast.op # "Reset"
    /\ costs' = NewCostTracker
    /\ costExpected' = [routes |-> << >>, backends |-> << >>]
    /\ costLast' = [costLast EXCEPT !.op = "Reset", !.thread = "reset"]
    /\ UNCHANGED <<costMu, costCalls>>

----------------------------------------------------------------------------
(* Backend watch of the Route controller (package controller) *)

wqVars == <<events, queue, changes>>

findRoutesForBackend_AnyNamespace(api, backend) ==
    {r \in DOMAIN api :
        /\ api[r] # NotFound
        /\ KeyName(backend) \in collectBackendNames(api[r].Spec)}

\* findRoutesForBackend: the reconcile requests for the Routes of the
\* Backend's namespace whose collected names contain the Backend's name.
findRoutesForBackend(api, backend) ==
    {r \in DOMAIN api :
        /\ api[r] # NotFound
        /\ KeyNamespace(r) = KeyNamespace(backend)
        /\ KeyName(backend) \in collectBackendNames(api[r].Spec)}

\* The Routes and Backends of the watch specification: two Routes of the
\* default namespace and one Route of another namespace that refers to a
\* Backend of the same name there.
WatchRouteSpec ==
    [r \in {"r1", "r2", NamespacedKey(NamespaceOther, "r1")} |->
        CASE r = "r1" -> RouteSpec(<<RouteRule(<<"b1">>)>>, NilRef,
                                   FallbackChain(<<"b2">>), << >>)
          [] r = "r2" -> RouteSpec(<< >>, BackendRef("b2"), NilFallback, << >>)
          [] OTHER -> RouteSpec(<< >>, BackendRef("b1"), NilFallback,
                                <<ABExperiment("b1", "b1")>>)]

WatchRoutes == DOMAIN WatchRouteSpec

WatchBackends == {"b1"}

\* Backends whose health stays as it is.
WatchOtherBackends == {"b2", NamespacedKey(NamespaceOther, "b1")}

WatchIdle ==
    /\ events = {}
    /\ queue = {}
    /\ changes = 0

\* The Backend reconciler writes a new status for b: the API server emits a
\* change event for the Backend watch of the Route controller.
BackendStatusChange(b, healthy) ==
    /\ changes < MaxChanges
    /\ BackendReconcileProbe(b, healthy, TRUE)
    /\ events' = events \cup {b}
    /\ changes' = changes + 1
    /\ UNCHANGED queue

\* handler.EnqueueRequestsFromMapFunc(r.findRoutesForBackend) handles the
\* change event of b; listOk tells whether r.List succeeded.  The workqueue
\* holds a request once however often it is added.
WatchEvent(b, listOk) ==
    /\ b \in events
    /\ events' = events \ {b}
    /\ queue' = IF listOk
                THEN queue \cup findRoutesForBackend(apiRoutes, b)
                ELSE queue
    /\ ctlLast' = [op |-> "Watch", key |-> b, listed |-> listOk]
    /\ UNCHANGED changes
    /\ UNCHANGED <<apiBackends, failureCounts, cacheBackends, probeStreak,
                   apiRoutes, cacheRoutes>>

\* A worker takes the request for r off the queue and runs Reconcile; both
\* results ask for another run: RequeueAfter 30 s on success, the rate
\* limited requeue on error.  So a Route that exists and is not in the
\* queue has a requeue delay running.
RouteReconcileQueued(r, getErrs, updateOk) ==
    /\ r \in queue
    /\ RouteReconcileStatus(r, getErrs, updateOk)
    /\ queue' = queue \ {r}
    /\ UNCHANGED <<events, changes>>

\* The requeue delay of r ran out.
RequeueTimer(r) ==
    /\ r \notin queue
    /\ apiRoutes[r] # NotFound
    /\ queue' = queue \cup {r}
    /\ ctlLast' = [op |-> "Requeue", key |-> r]
    /\ UNCHANGED <<events, changes>>
    /\ UNCHANGED <<apiBackends, failureCounts, cacheBackends, probeStreak,
                   apiRoutes, cacheRoutes>>

----------------------------------------------------------------------------
(* Rate limiter: removal of a route's buckets and eviction of idle users *)

evVars == <<rlOp>>

\* The clock of this part counts units of ten minutes: userLimiterTTL is 30
\* minutes, and a bucket of any rate is full again after one unit.
UserLimiterTTL == 3

\* The routes and users of this part; the name of one route begins with
\* the name of the other.
EvictRoutes == {"r1", "r10"}

EvictUsers == [r \in EvictRoutes |-> IF r = "r1" THEN {"", "u1", "u2"}
                                     ELSE {"", "u1"}]

\* What can follow "route:" in a user key.
KeyTails == {"u1", "u2"}

\* len(key) > len(routeName) && key[:len(routeName)+1] == routeName+":"
hasRoutePrefix(key, routeName) ==
    \E tail \in KeyTails : key = routeName \o ":" \o tail

Restrict(m, keys) == [k \in DOMAIN m \ keys |-> m[k]]

RemoveRouteLimit_RouteOnly(rl, routeName) ==
    [rl EXCEPT !.routeLimiters = MapDelete(@, routeName)]

\* RemoveRouteLimit: the limiter's tables after the call.
RemoveRouteLimit(rl, routeName) ==
    LET removed == {key \in DOMAIN rl.userLimiters :
                      hasRoutePrefix(key, routeName)}
    IN [routeLimiters |-> MapDelete(rl.routeLimiters, routeName),
        userLimiters |-> Restrict(rl.userLimiters, removed),
        lastAccess |-> Restrict(rl.lastAccess, removed)]

cleanup_AtTTL(rl, t) ==
    LET stale == {key \in DOMAIN rl.lastAccess :
                    t - rl.lastAccess[key] >= UserLimiterTTL}
    IN [rl EXCEPT !.userLimiters = Restrict(@, stale),
                  !.lastAccess = Restrict(@, stale)]

\* cleanup: the limiter's tables after one pass at time t.
cleanup(rl, t) ==
    LET stale == {key \in DOMAIN rl.lastAccess :
                    t - rl.lastAccess[key] > UserLimiterTTL}
    IN [rl EXCEPT !.userLimiters = Restrict(@, stale),
                  !.lastAccess = Restrict(@, stale)]

EvictIdle == rlOp = [op |-> "none", key |-> ""]

\* A request of userID on routeName, limited per user to one request per
\* minute, reaches Allow.
EvictAllow(routeName, userID) ==
    LET config == RateLimitConfig(1, TRUE)
        r == RateLimiter_Allow(limiters, routeName, userID, config)
    IN  /\ limiters' = r.rl
        /\ rlLast' = r.result
        /\ rlOp' = [op |-> "Allow", key |-> bucketKey(routeName, userID, config)]
        /\ UNCHANGED <<rlCall, rlWindow, now>>

RemoveRouteLimitCall(routeName) ==
    /\ limiters' = RemoveRouteLimit(limiters, routeName)
    /\ rlOp' = [op |-> "RemoveRouteLimit", key |-> routeName]
    /\ UNCHANGED <<rlCall, rlWindow, rlLast, now>>

\* cleanupLoop: the ticker fired.
CleanupPass ==
    /\ limiters' = cleanup(limiters, now)
    /\ rlOp' = [op |-> "cleanup", key |-> "",
                evicted |-> DOMAIN limiters.userLimiters \
                            DOMAIN limiters'.userLimiters]
    /\ UNCHANGED <<rlCall, rlWindow, rlLast, now>>

\* Ten minutes pass: every bucket is full again.
EvictClock ==
    /\ now < MaxClock
    /\ now' = now + 1
    /\ limiters' =
          [limiters EXCEPT
              !.routeLimiters = [k \in DOMAIN @ |-> NewLimiter(@[k].limit,
                                                               @[k].burst)],
              !.userLimiters = [k \in DOMAIN @ |-> NewLimiter(@[k].limit,
                                                              @[k].burst)]]
    /\ rlOp' = [op |-> "clock", key |-> ""]
    /\ UNCHANGED <<rlCall, rlWindow, rlLast>>

----------------------------------------------------------------------------
vars == <<cbVars, ctlVars, stVars, pxVars, rtVars, rqVars, rlVars, svVars, exVars, costVars, wqVars, evVars>>

\* The circuit breaker alone.
InitBreaker ==
    /\ BreakerInit
    /\ CtlInit
    /\ StoreInit
    /\ ProxyInit
    /\ RetryIdle
    /\ RequestsInit
    /\ LimiterIdle
    /\ ServerInit
    /\ ExperimentInit
    /\ CostInit
    /\ WatchIdle
    /\ EvictIdle

NextBreaker ==
    \/ Tick /\ UNCHANGED <<ctlVars, stVars, pxVars, rtVars, rqVars, rlVars, svVars, exVars, costVars, wqVars, evVars>>
    \/ CallAllow /\ UNCHANGED <<ctlVars, stVars, pxVars, rtVars, rqVars, rlVars, svVars, exVars, costVars, wqVars, evVars>>
    \/ CallRecordSuccess /\ UNCHANGED <<ctlVars, stVars, pxVars, rtVars, rqVars, rlVars, svVars, exVars, costVars, wqVars, evVars>>
    \/ CallRecordFailure /\ UNCHANGED <<ctlVars, stVars, pxVars, rtVars, rqVars, rlVars, svVars, exVars, costVars, wqVars, evVars>>
    \/ CallReset /\ UNCHANGED <<ctlVars, stVars, pxVars, rtVars, rqVars, rlVars, svVars, exVars, costVars, wqVars, evVars>>

SpecBreaker == InitBreaker /\ [][NextBreaker]_vars

\* The Backend reconciler on one key.
InitBackend ==
    /\ BreakerIdle
    /\ CtlInit
    /\ StoreInit
    /\ ProxyInit
    /\ RetryIdle
    /\ RequestsInit
    /\ LimiterIdle
    /\ ServerInit
    /\ ExperimentInit
    /\ CostInit
    /\ WatchIdle
    /\ EvictIdle

NextBackend ==
    \/ \E s \in BackendSpecs : CreateBackend("b1", s) /\ UNCHANGED <<cbVars, stVars, pxVars, rtVars, rqVars, rlVars, svVars, exVars, costVars, wqVars, evVars>>
    \/ \E s \in BackendSpecs : EditBackend("b1", s) /\ UNCHANGED <<cbVars, stVars, pxVars, rtVars, rqVars, rlVars, svVars, exVars, costVars, wqVars, evVars>>
    \/ DeleteBackend("b1") /\ UNCHANGED <<cbVars, stVars, pxVars, rtVars, rqVars, rlVars, svVars, exVars, costVars, wqVars, evVars>>
    \/ BackendReconcileGetError("b1") /\ UNCHANGED <<cbVars, stVars, pxVars, rtVars, rqVars, rlVars, svVars, exVars, costVars, wqVars, evVars>>
    \/ BackendReconcileDeleted("b1") /\ UNCHANGED <<cbVars, stVars, pxVars, rtVars, rqVars, rlVars, svVars, exVars, costVars, wqVars, evVars>>
    \/ \E updateOk \in BOOLEAN :
          BackendReconcileConfigError("b1", updateOk) /\ UNCHANGED <<cbVars, stVars, pxVars, rtVars, rqVars, rlVars, svVars, exVars, costVars, wqVars, evVars>>
    \/ \E healthy \in BOOLEAN, updateOk \in BOOLEAN :
          BackendReconcileProbe("b1", healthy, updateOk) /\ UNCHANGED <<cbVars, stVars, pxVars, rtVars, rqVars, rlVars, svVars, exVars, costVars, wqVars, evVars>>

SpecBackend == InitBackend /\ [][NextBackend]_vars

\* The Route reconciler over Backends that carry PlainBackendSpec.
PlainBackendSpec ==
    BackendSpec(BackendTypeKubernetes, Nil, FieldSet, Nil, HealthCheck(2))

\* Each Backend either does not exist or has just been created; Backends
\* are probed while Routes are created, edited, deleted and reconciled.
InitRoute ==
    /\ BreakerIdle
    /\ apiBackends \in [Backends -> {NotFound, NewBackend(PlainBackendSpec)}]
    /\ failureCounts = << >>
    /\ cacheBackends = << >>
    /\ probeStreak = [b \in Backends |-> 0]
    /\ ctlLast = [op |-> "none"]
    /\ apiRoutes = [r \in Routes |-> NotFound]
    /\ cacheRoutes = << >>
    /\ StoreInit
    /\ ProxyInit
    /\ RetryIdle
    /\ RequestsInit
    /\ LimiterIdle
    /\ ServerInit
    /\ ExperimentInit
    /\ CostInit
    /\ WatchIdle
    /\ EvictIdle

NextRoute ==
    \/ \E b \in Backends, healthy \in BOOLEAN :
          BackendReconcileProbe(b, healthy, TRUE) /\ UNCHANGED <<cbVars, stVars, pxVars, rtVars, rqVars, rlVars, svVars, exVars, costVars, wqVars, evVars>>
    \/ \E r \in Routes, s \in RouteSpecs : CreateRoute(r, s) /\ UNCHANGED <<cbVars, stVars, pxVars, rtVars, rqVars, rlVars, svVars, exVars, costVars, wqVars, evVars>>
    \/ \E r \in Routes, s \in RouteSpecs : EditRoute(r, s) /\ UNCHANGED <<cbVars, stVars, pxVars, rtVars, rqVars, rlVars, svVars, exVars, costVars, wqVars, evVars>>
    \/ \E r \in Routes : RemoveRoute(r) /\ UNCHANGED <<cbVars, stVars, pxVars, rtVars, rqVars, rlVars, svVars, exVars, costVars, wqVars, evVars>>
    \/ \E r \in Routes : RouteReconcileGetError(r) /\ UNCHANGED <<cbVars, stVars, pxVars, rtVars, rqVars, rlVars, svVars, exVars, costVars, wqVars, evVars>>
    \/ \E r \in Routes : RouteReconcileDeleted(r) /\ UNCHANGED <<cbVars, stVars, pxVars, rtVars, rqVars, rlVars, svVars, exVars, costVars, wqVars, evVars>>
    \/ \E r \in Routes, getErrs \in SUBSET Backends, updateOk \in BOOLEAN :
          RouteReconcileStatus(r, getErrs, updateOk) /\ UNCHANGED <<cbVars, stVars, pxVars, rtVars, rqVars, rlVars, svVars, exVars, costVars, wqVars, evVars>>

SpecRoute == InitRoute /\ [][NextRoute]_vars

\* Two goroutines calling the Store and mutating the objects they hold.
InitStore ==
    /\ BreakerIdle
    /\ CtlInit
    /\ StoreInit
    /\ ProxyInit
    /\ RetryIdle
    /\ RequestsInit
    /\ LimiterIdle
    /\ ServerInit
    /\ ExperimentInit
    /\ CostInit
    /\ WatchIdle
    /\ EvictIdle

NextStore ==
    \/ \E t \in Threads, kind \in Kinds, v \in Versions :
          NewObject(t, kind, v) /\ UNCHANGED <<cbVars, ctlVars, pxVars, rtVars, rqVars, rlVars, svVars, exVars, costVars, wqVars, evVars>>
    \/ \E t \in Threads, i \in 1..Cardinality(StoreKeys), v \in Versions :
          Mutate(t, i, v) /\ UNCHANGED <<cbVars, ctlVars, pxVars, rtVars, rqVars, rlVars, svVars, exVars, costVars, wqVars, evVars>>
    \/ \E t \in Threads, op \in RouteOps \cup BackendOps,
          key \in StoreKeys \cup {"none"} :
          Begin(t, op, key) /\ UNCHANGED <<cbVars, ctlVars, pxVars, rtVars, rqVars, rlVars, svVars, exVars, costVars, wqVars, evVars>>
    \/ \E t \in Threads : StoreSet(t) /\ UNCHANGED <<cbVars, ctlVars, pxVars, rtVars, rqVars, rlVars, svVars, exVars, costVars, wqVars, evVars>>
    \/ \E t \in Threads : StoreDelete(t) /\ UNCHANGED <<cbVars, ctlVars, pxVars, rtVars, rqVars, rlVars, svVars, exVars, costVars, wqVars, evVars>>
    \/ \E t \in Threads : StoreGet(t) /\ UNCHANGED <<cbVars, ctlVars, pxVars, rtVars, rqVars, rlVars, svVars, exVars, costVars, wqVars, evVars>>
    \/ \E t \in Threads : StoreList(t) /\ UNCHANGED <<cbVars, ctlVars, pxVars, rtVars, rqVars, rlVars, svVars, exVars, costVars, wqVars, evVars>>

SpecStore == InitStore /\ [][NextStore]_vars

\* Requests run through ExecuteWithFallback while the Backend reconciler
\* probes the Backends and updates the cache.
InitProxy ==
    /\ BreakerIdle
    /\ apiBackends = [b \in Backends |-> NewBackend(PlainBackendSpec)]
    /\ failureCounts = << >>
    /\ cacheBackends = << >>
    /\ probeStreak = [b \in Backends |-> 0]
    /\ ctlLast = [op |-> "none"]
    /\ apiRoutes = [r \in Routes |-> NotFound]
    /\ cacheRoutes = << >>
    /\ StoreInit
    /\ ProxyInit
    /\ RetryIdle
    /\ RequestsInit
    /\ LimiterIdle
    /\ ServerInit
    /\ ExperimentInit
    /\ CostInit
    /\ WatchIdle
    /\ EvictIdle

NextProxy ==
    \/ \E b \in Backends, healthy \in BOOLEAN :
          BackendReconcileProbe(b, healthy, TRUE)
          /\ UNCHANGED <<cbVars, stVars, pxVars, rtVars, rqVars, rlVars, svVars, exVars, costVars, wqVars, evVars>>
    \/ \E s \in RouteSpecs, primary \in Backends :
          StartExecute(s, primary) /\ UNCHANGED <<cbVars, ctlVars, stVars, rtVars, rqVars, rlVars, svVars, exVars, costVars, wqVars, evVars>>
    \/ \E outcome \in Outcomes :
          FallbackIteration(outcome) /\ UNCHANGED <<cbVars, stVars, rtVars, rqVars, rlVars, svVars, exVars, costVars, wqVars, evVars>>
    \/ \E cancelled \in BOOLEAN :
          Backoff(cancelled) /\ UNCHANGED <<cbVars, stVars, rtVars, rqVars, rlVars, svVars, exVars, costVars, wqVars, evVars>>

SpecProxy == InitProxy /\ [][NextProxy]_vars

\* Executes through RetryWithCircuitBreaker, one at a time, against
\* backends whose answers are arbitrary, while time passes.
InitRetry ==
    /\ now = 0
    /\ cbConfig \in ManagerConfigs
    /\ cb = NewCircuitBreaker
    /\ cbLast = [op |-> "New", err |-> NoError]
    /\ CtlInit
    /\ StoreInit
    /\ ProxyInit
    /\ RetryInit
    /\ RequestsInit
    /\ LimiterIdle
    /\ ServerInit
    /\ ExperimentInit
    /\ CostInit
    /\ WatchIdle
    /\ EvictIdle

\* The clock is read only by a breaker that is Open.
NextRetry ==
    \/ /\ \E name \in DOMAIN breakers : breakers[name].state = StateOpen
       /\ Tick
       /\ UNCHANGED <<ctlVars, stVars, pxVars, rtVars, rqVars, rlVars, svVars, exVars, costVars, wqVars, evVars>>
    \/ \E name \in RetryBackends, ctx \in {NoError, ErrCanceled} :
          Execute(name, ctx) /\ UNCHANGED <<cbVars, ctlVars, stVars, pxVars, rqVars, rlVars, svVars, exVars, costVars, wqVars, evVars>>
    \/ \E statusCode \in FnStatuses, err \in FnErrors :
          Attempt(statusCode, err) /\ UNCHANGED <<cbVars, ctlVars, stVars, pxVars, rqVars, rlVars, svVars, exVars, costVars, wqVars, evVars>>
    \/ RetryBackoff /\ UNCHANGED <<cbVars, ctlVars, stVars, pxVars, rqVars, rlVars, svVars, exVars, costVars, wqVars, evVars>>
    \/ \E err \in ContextErrors :
          CancelContext(err) /\ UNCHANGED <<cbVars, ctlVars, stVars, pxVars, rqVars, rlVars, svVars, exVars, costVars, wqVars, evVars>>

SpecRetry == InitRetry /\ [][NextRetry]_vars

\* Concurrent requests against one breaker: each admitted request is
\* recorded once, at any later time.
InitRequests ==
    /\ now = 0
    /\ cbConfig \in {cfg \in BreakerConfigs : cfg.RateNum = 0}
    /\ cb = NewCircuitBreaker
    /\ cbLast = [op |-> "New", err |-> NoError]
    /\ CtlInit
    /\ StoreInit
    /\ ProxyInit
    /\ RetryIdle
    /\ RequestsInit
    /\ LimiterIdle
    /\ ServerInit
    /\ ExperimentInit
    /\ CostInit
    /\ WatchIdle
    /\ EvictIdle

NextRequests ==
    \/ Tick /\ UNCHANGED <<ctlVars, stVars, pxVars, rtVars, rqVars, rlVars, svVars, exVars, costVars, wqVars, evVars>>
    \/ ExecuteAllow /\ UNCHANGED <<ctlVars, stVars, pxVars, rtVars, rlVars, svVars, exVars, costVars, wqVars, evVars>>
    \/ \E admittedAs \in {"closed", "probe"}, failed \in BOOLEAN :
          ExecuteRecord(admittedAs, failed)
          /\ UNCHANGED <<ctlVars, stVars, pxVars, rtVars, rlVars, svVars, exVars, costVars, wqVars, evVars>>

SpecRequests == InitRequests /\ [][NextRequests]_vars

\* One caller's requests against the rate limiter while time passes.
InitLimiter ==
    /\ BreakerIdle
    /\ CtlInit
    /\ StoreInit
    /\ ProxyInit
    /\ RetryIdle
    /\ RequestsInit
    /\ LimiterInit
    /\ ServerInit
    /\ ExperimentInit
    /\ CostInit
    /\ WatchIdle
    /\ EvictIdle

NextLimiter ==
    \/ RateAllow
       /\ UNCHANGED <<cbVars, ctlVars, stVars, pxVars, rtVars, rqVars, svVars, exVars, costVars, wqVars, evVars>>
    \/ RateTick
       /\ UNCHANGED <<cbVars, ctlVars, stVars, pxVars, rtVars, rqVars, svVars, exVars, costVars, wqVars, evVars>>

SpecLimiter == InitLimiter /\ [][NextLimiter]_vars

\* Requests of several users on several routes against one rate limiter.
InitBuckets ==
    /\ BreakerIdle
    /\ CtlInit
    /\ StoreInit
    /\ ProxyInit
    /\ RetryIdle
    /\ RequestsInit
    /\ LimiterIdle
    /\ ServerInit
    /\ ExperimentInit
    /\ CostInit
    /\ WatchIdle
    /\ EvictIdle

NextBuckets ==
    \E routeName \in LimitedRoutes, userID \in UserIDs,
       config \in RouteRateLimits :
        RateAllowCall(routeName, userID, config)
        /\ UNCHANGED <<cbVars, ctlVars, stVars, pxVars, rtVars, rqVars, svVars, exVars, costVars, wqVars, evVars>>

SpecBuckets == InitBuckets /\ [][NextBuckets]_vars

\* The rate limits of a route before and after its requestsPerMinute is
\* edited from 1 to 2 or back.
EditedRateLimits ==
    {RateLimitConfig(rpm, perUser) : rpm \in {1, 2}, perUser \in BOOLEAN}

\* Requests on one route whose rate limit is edited between them: the
\* server hands Allow the rate limit of the route it found in the cache.
InitRateChange ==
    /\ BreakerIdle
    /\ CtlInit
    /\ StoreInit
    /\ ProxyInit
    /\ RetryIdle
    /\ RequestsInit
    /\ LimiterIdle
    /\ ServerInit
    /\ ExperimentInit
    /\ CostInit
    /\ WatchIdle
    /\ EvictIdle

NextRateChange ==
    \E userID \in {"", "u1"}, config \in EditedRateLimits :
        RateAllowCall("r1", userID, config)
        /\ UNCHANGED <<cbVars, ctlVars, stVars, pxVars, rtVars, rqVars, svVars, exVars, costVars, wqVars, evVars>>

SpecRateChange == InitRateChange /\ [][NextRateChange]_vars

\* Requests through Server.ServeHTTP while the Route reconciler sets and
\* deletes the routes of the cache.
InitServer ==
    /\ BreakerIdle
    /\ CtlInit
    /\ StoreInit
    /\ ProxyInit
    /\ RetryIdle
    /\ RequestsInit
    /\ LimiterIdle
    /\ ServerInit
    /\ ExperimentInit
    /\ CostInit
    /\ WatchIdle
    /\ EvictIdle

NextServer ==
    \/ \E route \in ServedRoutes :
          CacheSetRoute(route)
          /\ UNCHANGED <<cbVars, ctlVars, stVars, pxVars, rtVars, rqVars, rlVars, exVars, costVars, wqVars, evVars>>
    \/ \E key \in DOMAIN routeCache :
          CacheDeleteRoute(key)
          /\ UNCHANGED <<cbVars, ctlVars, stVars, pxVars, rtVars, rqVars, rlVars, exVars, costVars, wqVars, evVars>>
    \/ \E req \in HttpRequests :
          ServeHTTP(req)
          /\ UNCHANGED <<cbVars, ctlVars, stVars, pxVars, rtVars, rqVars, exVars, costVars, wqVars, evVars>>
    \/ \E status \in {StatusOK, StatusBadGateway} :
          HandleRequest(status)
          /\ UNCHANGED <<cbVars, ctlVars, stVars, pxVars, rtVars, rqVars, rlVars, exVars, costVars, wqVars, evVars>>

SpecServer == InitServer /\ [][NextServer]_vars

\* Requests of several users assigned in several experiments by one
\* ExperimentManager.
InitExperiment ==
    /\ BreakerIdle
    /\ CtlInit
    /\ StoreInit
    /\ ProxyInit
    /\ RetryIdle
    /\ RequestsInit
    /\ LimiterIdle
    /\ ServerInit
    /\ ExperimentInit
    /\ CostInit
    /\ WatchIdle
    /\ EvictIdle

NextExperiment ==
    \E experiment \in Experiments, req \in ExperimentRequests :
        CallGetBackend(experiment, req)
        /\ UNCHANGED <<cbVars, ctlVars, stVars, pxVars, rtVars, rqVars, rlVars, svVars, costVars, wqVars, evVars>>

SpecExperiment == InitExperiment /\ [][NextExperiment]_vars

\* Two request goroutines calling TrackRequest while Reset is called.
InitCost ==
    /\ BreakerIdle
    /\ CtlInit
    /\ StoreInit
    /\ ProxyInit
    /\ RetryIdle
    /\ RequestsInit
    /\ LimiterIdle
    /\ ServerInit
    /\ ExperimentInit
    /\ CostInit
    /\ WatchIdle
    /\ EvictIdle

NextCost ==
    \/ \E t \in CostThreads, route \in CostRoutes, backend \in CostBackends,
          usage \in Usages :
          TrackRequestNil(t, route, backend, usage)
          /\ UNCHANGED <<cbVars, ctlVars, stVars, pxVars, rtVars, rqVars, rlVars, svVars, exVars, wqVars, evVars>>
    \/ \E t \in CostThreads, route \in CostRoutes, backend \in CostBackends,
          usage \in Usages, config \in CostConfigs :
          TrackRequestBegin(t, route, backend, usage, config)
          /\ UNCHANGED <<cbVars, ctlVars, stVars, pxVars, rtVars, rqVars, rlVars, svVars, exVars, wqVars, evVars>>
    \/ \E t \in CostThreads :
          TrackRequestLock(t) /\ UNCHANGED <<cbVars, ctlVars, stVars, pxVars, rtVars, rqVars, rlVars, svVars, exVars, wqVars, evVars>>
    \/ \E t \in CostThreads :
          TrackRequestRoute(t) /\ UNCHANGED <<cbVars, ctlVars, stVars, pxVars, rtVars, rqVars, rlVars, svVars, exVars, wqVars, evVars>>
    \/ \E t \in CostThreads :
          TrackRequestBackend(t) /\ UNCHANGED <<cbVars, ctlVars, stVars, pxVars, rtVars, rqVars, rlVars, svVars, exVars, wqVars, evVars>>
    \/ CostReset /\ UNCHANGED <<cbVars, ctlVars, stVars, pxVars, rtVars, rqVars, rlVars, svVars, exVars, wqVars, evVars>>

SpecCost == InitCost /\ [][NextCost]_vars

----------------------------------------------------------------------------
\* The Backend watch of the Route controller: Backends change health while
\* the Routes that exist are reconciled from the workqueue.  Every Route was
\* queued when it was created.
InitWatch ==
    /\ BreakerIdle
    /\ apiBackends = [b \in WatchBackends \cup WatchOtherBackends |->
                         NewBackend(PlainBackendSpec)]
    /\ failureCounts = << >>
    /\ cacheBackends = << >>
    /\ probeStreak = [b \in WatchBackends \cup WatchOtherBackends |-> 0]
    /\ ctlLast = [op |-> "none"]
    /\ apiRoutes = [r \in WatchRoutes |-> NewRoute(WatchRouteSpec[r])]
    /\ cacheRoutes = << >>
    /\ StoreInit
    /\ ProxyInit
    /\ RetryIdle
    /\ RequestsInit
    /\ LimiterIdle
    /\ ServerInit
    /\ ExperimentInit
    /\ CostInit
    /\ events = {}
    /\ queue = WatchRoutes
    /\ changes = 0
    /\ EvictIdle

WatchOthers == <<cbVars, stVars, pxVars, rtVars, rqVars, rlVars, svVars, exVars, costVars, evVars>>

CleanReconcile(r) == RouteReconcileQueued(r, {}, TRUE) /\ UNCHANGED WatchOthers

TimerFires(r) == RequeueTimer(r) /\ UNCHANGED WatchOthers

NextWatch ==
    \/ \E b \in WatchBackends, healthy \in BOOLEAN :
          BackendStatusChange(b, healthy) /\ UNCHANGED WatchOthers
    \/ \E b \in WatchBackends, listOk \in BOOLEAN :
          WatchEvent(b, listOk) /\ UNCHANGED WatchOthers
    \/ \E r \in WatchRoutes, getErrs \in {{}, {"b1"}}, updateOk \in BOOLEAN :
          RouteReconcileQueued(r, getErrs, updateOk) /\ UNCHANGED WatchOthers
    \/ \E r \in WatchRoutes : TimerFires(r)

\* The workqueue hands every queued request to a worker and every requeue
\* delay runs out; Get and Status().Update errors are transient, so a queued
\* Route is again and again reconciled without one.
WatchFairness ==
    \A r \in WatchRoutes : SF_vars(CleanReconcile(r)) /\ WF_vars(TimerFires(r))

SpecWatch == InitWatch /\ [][NextWatch]_vars /\ WatchFairness

\* Retrier.Do alone: Executes one at a time against a breaker that stays
\* as its results leave it, with every error fn can return.
InitDo == InitRetry

DoOthers == <<cbVars, ctlVars, stVars, pxVars, rqVars, rlVars, svVars, exVars, costVars, wqVars, evVars>>

NextDo ==
    \/ \E name \in RetryBackends, ctx \in {NoError, ErrDeadlineExceeded} :
          Execute(name, ctx) /\ UNCHANGED DoOthers
    \/ \E statusCode \in FnStatuses, err \in DoErrors :
          Attempt(statusCode, err) /\ UNCHANGED DoOthers
    \/ RetryBackoff /\ UNCHANGED DoOthers
    \/ \E err \in ContextErrors : CancelContext(err) /\ UNCHANGED DoOthers

SpecDo == InitDo /\ [][NextDo]_vars

\* Requests of users on two routes against one rate limiter whose buckets
\* are removed per route and evicted when idle, while time passes.
InitEvict == InitBuckets

EvictOthers == <<cbConfig, cb, cbLast, ctlVars, stVars, pxVars, rtVars, rqVars, svVars, exVars, costVars, wqVars>>

NextEvict ==
    \/ \E routeName \in EvictRoutes : \E userID \in EvictUsers[routeName] :
          EvictAllow(routeName, userID) /\ UNCHANGED EvictOthers
    \/ \E routeName \in EvictRoutes :
          RemoveRouteLimitCall(routeName) /\ UNCHANGED EvictOthers
    \/ CleanupPass /\ UNCHANGED EvictOthers
    \/ EvictClock /\ UNCHANGED EvictOthers

SpecEvict == InitEvict /\ [][NextEvict]_vars

\* C1: once the breaker is Open with openedAt = t0 (stamped on entry), every
\* step taken at a time before t0 + timeout that is not a manual Reset leaves
\* it Open with the same t0, and an Allow made then returns ErrCircuitOpen.
C1_OpenRejectsBeforeTimeout ==
    [][/\ (cb.state # StateOpen /\ cb'.state = StateOpen)
            => cb'.openedAt = now'
       /\ (/\ cb.state = StateOpen
           /\ cbLast'.op # "Reset"
           /\ now' < cb.openedAt + cbConfig.Timeout)
            => /\ cb'.state = StateOpen
               /\ cb'.openedAt = cb.openedAt
               /\ (cbLast'.op = "Allow" => cbLast'.err = ErrCircuitOpen)]_vars

\* An Allow was rejected with ErrCircuitOpen strictly between t0 and
\* t0 + timeout, after results were recorded while Open.
C1_Witness ==
    /\ cb.state = StateOpen
    /\ cbLast = [op |-> "Allow", err |-> ErrCircuitOpen]
    /\ now > cb.openedAt
    /\ now < cb.openedAt + cbConfig.Timeout
    /\ cb.totalRequests > cb.consecutiveFailures
    /\ cb.consecutiveSuccesses > 0

----------------------------------------------------------------------------
\* C2: a Backend reconcile that runs a probe increments the key's
\* consecutive-failure count on a failed probe and resets it to 0 on a
\* successful one, and computes health Healthy iff the probe succeeded,
\* Unhealthy iff it failed with count >= failureThreshold (3 when unset),
\* Unknown iff it failed with 1 <= count <= failureThreshold - 1; the status
\* it persists carries that health.
C2_ProbeSetsHealth ==
    [][(ctlLast'.op = "BackendReconcile" /\ ctlLast'.path = "probed") =>
         LET k == ctlLast'.key
             ok == ctlLast'.healthy
             h == ctlLast'.health
             n == MapGet(failureCounts', k)
             hc == apiBackends[k].Spec.HealthCheck
             thr == IF hc.IsNil \/ hc.FailureThreshold = 0
                    THEN 3 ELSE hc.FailureThreshold
         IN /\ k \in DOMAIN failureCounts'
            /\ n = IF ok THEN 0 ELSE MapGet(failureCounts, k) + 1
            /\ h \in {HealthStatusHealthy, HealthStatusUnhealthy,
                       HealthStatusUnknown}
            /\ (h = HealthStatusHealthy) <=> ok
            /\ (h = HealthStatusUnhealthy) <=> (~ok /\ n >= thr)
            /\ (h = HealthStatusUnknown) <=> (~ok /\ 1 <= n /\ n <= thr - 1)
            /\ ~ctlLast'.err => apiBackends'[k].Health = h]_vars

\* The third failed probe in a row of a Backend without healthCheck made it
\* Unhealthy.
C2_Witness ==
    /\ ctlLast.op = "BackendReconcile"
    /\ ctlLast.path = "probed"
    /\ ~ctlLast.err
    /\ apiBackends[ctlLast.key] # NotFound
    /\ apiBackends[ctlLast.key].Spec.HealthCheck.IsNil
    /\ apiBackends[ctlLast.key].Health = HealthStatusUnhealthy
    /\ MapGet(failureCounts, ctlLast.key) = 3

\* C3 as stated: in every reachable state a Backend's status health is
\* Unhealthy only if at least failureThreshold consecutive probes have
\* failed since its last successful probe, and Healthy only if its most
\* recent probe succeeded.
C3_Original ==
    \A b \in Backends :
        apiBackends[b] # NotFound =>
            /\ apiBackends[b].Health = HealthStatusUnhealthy
                  => probeStreak[b] >= failureThreshold(apiBackends[b].Spec)
            /\ apiBackends[b].Health = HealthStatusHealthy
                  => probeStreak[b] = 0

\* C3 amended: status health is set to Unhealthy only by a reconcile that
\* rejects the configuration or whose failed probe is at least the
\* failureThreshold-th consecutive failed probe since the last successful
\* one; it is set to Healthy only by a reconcile whose probe succeeded; and
\* it keeps its value until the next successful status write.
C3_HealthWrittenOnlyBy ==
    [][\A b \in Backends :
         LET wrote == /\ ctlLast'.op = "BackendReconcile"
                      /\ ctlLast'.key = b
                      /\ ctlLast'.path \in {"probed", "configError"}
                      /\ ~ctlLast'.err
         IN /\ (apiBackends[b] # NotFound /\ apiBackends'[b] # NotFound
                  /\ ~wrote)
                  => apiBackends'[b].Health = apiBackends[b].Health
            /\ (apiBackends[b] = NotFound /\ apiBackends'[b] # NotFound)
                  => apiBackends'[b].Health = ""
            /\ (wrote /\ apiBackends'[b].Health = HealthStatusUnhealthy)
                  => \/ ctlLast'.path = "configError"
                     \/ /\ ~ctlLast'.healthy
                        /\ probeStreak'[b]
                             >= failureThreshold(apiBackends'[b].Spec)
            /\ (wrote /\ apiBackends'[b].Health = HealthStatusHealthy)
                  => /\ ctlLast'.path = "probed"
                     /\ ctlLast'.healthy
                     /\ probeStreak'[b] = 0
            /\ (wrote /\ apiBackends'[b].Health = HealthStatusUnknown)
                  => /\ ctlLast'.path = "probed"
                     /\ ~ctlLast'.healthy]_vars

\* A probe reconcile wrote Unhealthy at exactly the threshold, after the
\* failure counter had been purged by a deletion in between.
C3_Witness ==
    /\ ctlLast.op = "BackendReconcile"
    /\ ctlLast.path = "probed"
    /\ ~ctlLast.err
    /\ apiBackends["b1"] # NotFound
    /\ apiBackends["b1"].Health = HealthStatusUnhealthy
    /\ MapGet(failureCounts, "b1") = failureThreshold(apiBackends["b1"].Spec)
    /\ probeStreak["b1"] > MapGet(failureCounts, "b1")

\* The Backends a Route spec refers to: in some rule, as defaultBackend, in
\* the fallback chain, or as control or treatment of some experiment.
C4_Refs(s) ==
    {n \in Backends :
        \/ \E i \in DOMAIN s.Rules : \E j \in DOMAIN s.Rules[i].Backends :
              s.Rules[i].Backends[j].Name = n
        \/ (~s.DefaultBackend.IsNil /\ s.DefaultBackend.Name = n)
        \/ (~s.Fallback.IsNil /\ \E i \in DOMAIN s.Fallback.Backends :
              s.Fallback.Backends[i] = n)
        \/ \E i \in DOMAIN s.Experiments :
              n \in {s.Experiments[i].Control, s.Experiments[i].Treatment}}

\* The state is the one a Route reconcile that computed a status has left.
C4_AfterReconcile ==
    /\ ctlLast.op = "RouteReconcile"
    /\ ctlLast.path = "status"

C4_Missing(n) == n \notin ctlLast.getErrs /\ apiBackends[n] = NotFound

C4_Healthy(n) ==
    /\ n \notin ctlLast.getErrs
    /\ apiBackends[n] # NotFound
    /\ apiBackends[n].Health = HealthStatusHealthy

\* C4 as stated: after every Route reconcile the phase is Active iff every
\* referenced Backend resolves and is Healthy, Failed iff some referenced
\* Backend is missing or none is healthy, Degraded iff at least one but not
\* all are healthy, Pending iff the Route references no Backends.
C4_Original ==
    C4_AfterReconcile =>
        LET refs == C4_Refs(apiRoutes[ctlLast.key].Spec)
            phase == ctlLast.phase
        IN /\ (phase = PhaseActive) <=> (\A n \in refs : C4_Healthy(n))
           /\ (phase = PhaseFailed) <=>
                 \/ \E n \in refs : C4_Missing(n)
                 \/ ~\E n \in refs : C4_Healthy(n)
           /\ (phase = PhaseDegraded) <=>
                 /\ \E n \in refs : C4_Healthy(n)
                 /\ ~\A n \in refs : C4_Healthy(n)
           /\ (phase = PhasePending) <=> (refs = {})

\* C4 amended: the phase is Pending iff the Route references no Backends;
\* when it references some, Failed iff some referenced Backend is missing or
\* none is healthy, Degraded iff none is missing and at least one but not
\* all are healthy, Active iff every one resolves and is Healthy.  The
\* persisted status and the cache entry carry that phase.
C4_PhaseByBackends ==
    C4_AfterReconcile =>
        LET r == ctlLast.key
            refs == C4_Refs(apiRoutes[r].Spec)
            phase == ctlLast.phase
            someMissing == \E n \in refs : C4_Missing(n)
            someHealthy == \E n \in refs : C4_Healthy(n)
            allHealthy == \A n \in refs : C4_Healthy(n)
        IN /\ phase \in {PhasePending, PhaseActive, PhaseDegraded, PhaseFailed}
           /\ (phase = PhasePending) <=> (refs = {})
           /\ (phase = PhaseFailed) <=>
                 (refs # {} /\ (someMissing \/ ~someHealthy))
           /\ (phase = PhaseDegraded) <=>
                 (refs # {} /\ ~someMissing /\ someHealthy /\ ~allHealthy)
           /\ (phase = PhaseActive) <=> (refs # {} /\ allHealthy)
           /\ ~ctlLast.err =>
                 /\ apiRoutes[r].Phase = phase
                 /\ r \in DOMAIN cacheRoutes
                 /\ cacheRoutes[r].Phase = phase

\* A reconcile found one referenced Backend Healthy and another missing, and
\* wrote Failed.
C4_Witness ==
    /\ C4_AfterReconcile
    /\ ~ctlLast.err
    /\ apiRoutes[ctlLast.key].Phase = PhaseFailed
    /\ \E n \in C4_Refs(apiRoutes[ctlLast.key].Spec) : C4_Healthy(n)
    /\ \E n \in C4_Refs(apiRoutes[ctlLast.key].Spec) : C4_Missing(n)

----------------------------------------------------------------------------
\* C5: for routes and for backends alike, what Get(k) returns is deep-equal
\* to the object passed to the latest Set(k) as it was at that call, and it
\* is independent of the Store: the Store shares no object with any caller,
\* so assigning to an object that was passed to Set, or that Get or List
\* returned, leaves what a later Get(k) returns unchanged.
C5_SetGetIndependent ==
    /\ \A kind \in Kinds, k \in StoreKeys :
          StoreValue(kind, k) = written[kind][k]
    /\ \A t \in Threads :
          Range(calls[t].held) \cap (Range(routes) \cup Range(backends)) = {}
    /\ stLast.op \in GetOps =>
          stLast.result = written[KindOf(stLast.op)][stLast.key]
    /\ stLast.op \in ListOps =>
          Range(stLast.results) =
              {written[KindOf(stLast.op)][k] : k \in StoreKeys} \ {NotFound}

\* A caller has just assigned to an object that the Store was handed or
\* handed out, which until then equalled the entry under k1; the entry
\* still has the old contents.
C5_Witness ==
    /\ stLast.op = "Mutate"
    /\ stLast.shared
    /\ stLast.old # stLast.new
    /\ StoreValue(stLast.old.Kind, "k1") = stLast.old
    /\ written[stLast.old.Kind]["k1"] = stLast.old

\* C6: whatever the interleaving of Set, Delete, Get and List calls, a Get
\* returns not-found or one whole object that was passed to Set for its key,
\* never a mix of two; a Get that starts when no Set or Delete of its key
\* is in progress, and during which none starts, returns what the latest
\* of them left: the object of the latest Set, not-found after a Delete.
C6_GetSeesWholeLatestWrite ==
    stLast.op \in GetOps =>
        LET kind == KindOf(stLast.op)
        IN  /\ stLast.ok =>
                  /\ stLast.result \in WholeObjects(kind)
                  /\ stLast.result = written[kind][stLast.key]
            /\ ~stLast.ok => written[kind][stLast.key] = NotFound
            /\ stLast.clean => stLast.result = stLast.expect

\* A Get that started after a Set of its key had returned has just returned
\* that object while the other goroutine is inside a read of the Store.
C6_Witness ==
    /\ stLast.op \in GetOps
    /\ stLast.ok
    /\ stLast.clean
    /\ stLast.result = stLast.expect
    /\ \E u \in Threads :
          calls[u].pc = "locked" /\ calls[u].op \in GetOps \cup ListOps

----------------------------------------------------------------------------
\* C7: ExecuteWithFallback sends the request to a chain entry whose cached
\* health is not Healthy only when that entry is the final one of the chain,
\* and it sends the request to the final entry whenever the loop finds it in
\* the cache, whatever its health.
C7_UnhealthyOnlyAsLastResort ==
    [][(exec.pc = "loop" /\ Len(exec'.log) = Len(exec.log) + 1) =>
         LET name == exec.chain[exec.i]
             sent == exec'.log[Len(exec'.log)].result \in {"ok", "failed"}
         IN  /\ sent =>
                   /\ name \in DOMAIN cacheBackends
                   /\ \/ cacheBackends[name].Health = HealthStatusHealthy
                      \/ exec.i = Len(exec.chain)
             /\ (exec.i = Len(exec.chain) /\ name \in DOMAIN cacheBackends)
                   => sent]_vars

\* The loop skipped a cached first entry and then sent the request to the
\* final entry although its cached health was not Healthy.
C7_Witness ==
    /\ Len(exec.chain) >= 2
    /\ Len(exec.log) = Len(exec.chain)
    /\ exec.log[1].result = "skipped"
    /\ exec.log[Len(exec.log)].result \in {"ok", "failed"}
    /\ exec.log[Len(exec.log)].health # HealthStatusHealthy

\* The entries of the log at which a backend answered with a status.
C8_Answered == {j \in DOMAIN exec.log : exec.log[j].answered}

\* C8: when an earlier backend of the chain answered with a status >= 500
\* and a later one answers with a status < 500, the client has received
\* exactly the later backend's response: its status, X-Served-By naming it,
\* and its body alone.
C8_Original ==
    (/\ exec.end = "returned"
     /\ \E j \in C8_Answered : exec.log[j].result = "failed")
    => LET e == exec.log[Len(exec.log)]
       IN  /\ clientW.status = e.statusCode
           /\ clientW.servedBy = e.backend
           /\ clientW.body = <<[from |-> e.backend, status |-> e.statusCode]>>

\* The error ExecuteWithFallback keeps for a failed entry of the log.
C9_ErrorOf(e) ==
    IF e.result = "notFound" THEN ErrBackendNotFound(e.backend)
    ELSE ErrBackendStatus(e.statusCode)

\* C9: when every entry of the chain failed, by being missing from the cache
\* or by an attempt that ended with a status >= 500 or a transport error,
\* the client has received status 503 and the message 'All backends
\* failed: ' followed by the error of the last entry; a missing entry does
\* not end the loop.
C9_Original ==
    /\ (/\ exec.end = "allFailed"
        /\ \A j \in DOMAIN exec.log :
              exec.log[j].result \in {"notFound", "failed"})
       => /\ clientW.status = StatusServiceUnavailable
          /\ clientW.body[Len(clientW.body)] =
                [msg |-> "All backends failed",
                 err |-> C9_ErrorOf(exec.log[Len(exec.log)])]
    /\ \A j \in DOMAIN exec.log :
          (exec.log[j].result = "notFound" /\ j < Len(exec.chain))
          => \/ Len(exec.log) > j
             \/ exec.pc = "loop" /\ exec.i = j + 1

\* C10: once an attempt has ended with a status < 500, ExecuteWithFallback
\* has returned without looking at a later entry, and the client has
\* received that backend's response unchanged.
C10_Original ==
    \A j \in DOMAIN exec.log :
        exec.log[j].result = "ok" =>
            /\ exec.pc = "done"
            /\ j = Len(exec.log)
            /\ clientW.status = exec.log[j].statusCode
            /\ clientW.servedBy = exec.log[j].backend
            /\ clientW.body = <<[from |-> exec.log[j].backend,
                                 status |-> exec.log[j].statusCode]>>

\* C11 (as stated): every attempt ExecuteWithFallback makes on a backend went
\* through that backend's circuit breaker, so the manager holds a breaker
\* for the backend (the gate creates it) and the breaker has seen the
\* attempt: it is not in the state it was constructed in.
C11_Original ==
    \A j \in DOMAIN exec.log :
        exec.log[j].result \in {"ok", "failed"} =>
            /\ exec.log[j].backend \in DOMAIN breakers
            /\ breakers[exec.log[j].backend] # NewCircuitBreaker

\* C12 (as stated): when an admitted Execute has returned, it has recorded a
\* failure on the breaker if the run ended with an error, or with a
\* retryable status once no retry was left, and it has recorded a failure
\* only if the run ended with an error or a 5xx or retryable status.
C12_Original ==
    (retry.pc = "done" /\ retry.end # "rejected") =>
        LET result == retry.result
            retryable == isRetryableStatusCode(retryConfig, result.StatusCode)
        IN  /\ (\/ result.LastError # NoError
                \/ retry.end = "exhausted" /\ retryable)
               => retry.recorded = "failure"
            /\ retry.recorded = "failure" =>
                  \/ result.LastError # NoError
                  \/ result.StatusCode >= ServerErrorFloor
                  \/ retryable

C14_ClosedTripsExactlyOnThreshold ==
    [][cb.state = StateClosed =>
          LET consecutive == cb.consecutiveFailures + 1
              total == cb.totalRequests + 1
              failed == cb.failures + 1
              trip ==
                  \/ consecutive >= cbConfig.FailureThreshold
                  \/ /\ cbConfig.RateNum > 0
                     /\ total >= cbConfig.MinRequestsForRate
                     /\ failed * cbConfig.RateDen >= cbConfig.RateNum * total
          IN  /\ cbLast'.op = "Allow" =>
                    cbLast'.err = NoError /\ cb'.state = StateClosed
              /\ cbLast'.op = "RecordFailure" =>
                    IF trip
                    THEN cb'.state = StateOpen /\ cb'.openedAt = now
                    ELSE /\ cb'.state = StateClosed
                         /\ cb'.consecutiveFailures = consecutive
              /\ cbLast'.op = "RecordSuccess" =>
                    cb'.state = StateClosed /\ cb'.consecutiveFailures = 0]_vars

\* The rate rule opens a breaker that has never left Closed before and whose
\* consecutive failures are below the threshold.
C14_Witness ==
    /\ cbLast.op = "RecordFailure"
    /\ cb.state = StateOpen
    /\ now < cbConfig.Timeout
    /\ now > 0
    /\ cb.openedAt = now
    /\ cb.consecutiveFailures < cbConfig.FailureThreshold

\* C15 (as stated): as long as no result of a request admitted while Closed
\* has been recorded while HalfOpen, and every admitted probe is recorded
\* once, a HalfOpen breaker has at most HalfOpenMaxRequests admitted probes
\* outstanding.
C15_Original ==
    (cb.state = StateHalfOpen /\ ~flight.stale) =>
        flight.probe <= cbConfig.HalfOpenMaxRequests

\* C16: the consecutive-success count is 0 when the breaker enters HalfOpen,
\* whatever was recorded before; while HalfOpen each RecordSuccess adds one
\* to it and Allow leaves it alone; the RecordSuccess that brings it to
\* SuccessThreshold closes the breaker with failures, successes,
\* totalRequests and both consecutive counts at 0, an earlier one leaves it
\* HalfOpen, and neither Allow nor RecordFailure closes it.
C16_HalfOpenClosesOnThreshold ==
    [][/\ (cb.state # StateHalfOpen /\ cb'.state = StateHalfOpen) =>
             cb'.consecutiveSuccesses = 0
       /\ cb.state = StateHalfOpen =>
             /\ cbLast'.op = "RecordSuccess" =>
                   IF cb.consecutiveSuccesses + 1 >= cbConfig.SuccessThreshold
                   THEN /\ cb'.state = StateClosed
                        /\ cb'.failures = 0
                        /\ cb'.successes = 0
                        /\ cb'.totalRequests = 0
                        /\ cb'.consecutiveFailures = 0
                        /\ cb'.consecutiveSuccesses = 0
                   ELSE /\ cb'.state = StateHalfOpen
                        /\ cb'.consecutiveSuccesses =
                              cb.consecutiveSuccesses + 1
             /\ cbLast'.op = "Allow" =>
                   /\ cb'.state = StateHalfOpen
                   /\ cb'.consecutiveSuccesses = cb.consecutiveSuccesses
             /\ cbLast'.op = "RecordFailure" => cb'.state # StateClosed]_vars

\* A breaker that needed two successes has just been closed by the second:
\* a RecordSuccess in Closed would have left successes above 0.
C16_Witness ==
    /\ cbLast.op = "RecordSuccess"
    /\ cb.state = StateClosed
    /\ cb.successes = 0
    /\ cb.totalRequests = 0
    /\ cbConfig.SuccessThreshold = 2

\* C17: a RecordFailure on a HalfOpen breaker leaves it Open with openedAt
\* the current time, however many successes were recorded; and an Allow on
\* an Open breaker earlier than Timeout after openedAt is rejected with
\* ErrCircuitOpen and leaves it Open.
C17_HalfOpenFailureReopens ==
    [][/\ (cb.state = StateHalfOpen /\ cbLast'.op = "RecordFailure") =>
             /\ cb'.state = StateOpen
             /\ cb'.openedAt = now
       /\ (/\ cb.state = StateOpen
           /\ cbLast'.op = "Allow"
           /\ now < cb.openedAt + cbConfig.Timeout) =>
             /\ cbLast'.err = ErrCircuitOpen
             /\ cb' = cb]_vars

\* A failure has re-opened, at the current time, a breaker that was HalfOpen
\* with a second probe admitted, after a success and with fewer than
\* FailureThreshold consecutive failures.
C17_Witness ==
    /\ cbLast.op = "RecordFailure"
    /\ cb.state = StateOpen
    /\ cb.openedAt = now
    /\ now >= cbConfig.Timeout
    /\ cbConfig.RateNum = 0
    /\ cb.halfOpenRequests = 1
    /\ cb.consecutiveFailures < cbConfig.FailureThreshold
    /\ cb.successes >= 1

\* Steps Do has left at most: two per attempt of the loop not started yet,
\* one less once the attempt's fn has returned.
C18_Measure(frame) ==
    IF frame.pc \in {"attempt", "backoff"}
    THEN 2 * (retryConfig.MaxRetries + 1 - frame.attempt)
         - (IF frame.pc = "backoff" THEN 1 ELSE 0)
    ELSE 0

\* C18: Do reports as Attempts the number of times it has invoked fn; when
\* it has returned it has invoked fn at least once and at most
\* MaxRetries + 1 times; when every invocation returned a retryable status
\* and the context was never done, Attempts = MaxRetries + 1 and StatusCode
\* is the status of the last invocation; and every step of Do lowers a
\* measure that is never negative, so Do returns.
C18_DoTerminatesWithinMaxRetries ==
    /\ [](retry.pc \in {"attempt", "backoff"} \/
          (retry.pc = "done" /\ retry.end # "rejected") =>
             /\ retry.result.Attempts = retry.invocations
             /\ retry.invocations <= retryConfig.MaxRetries + 1
             /\ C18_Measure(retry) >= 0)
    /\ []((retry.pc = "done" /\ retry.end # "rejected") =>
             /\ retry.invocations >= 1
             /\ (retry.allRetryable /\ ctxErr = NoError) =>
                   /\ retry.result.Attempts = retryConfig.MaxRetries + 1
                   /\ retry.result.StatusCode = retry.returned.statusCode)
    /\ [][(/\ retry.pc \in {"attempt", "backoff"}
           /\ (retry'.pc # retry.pc \/ retry'.attempt # retry.attempt)) =>
             C18_Measure(retry') < C18_Measure(retry)]_vars

\* Three invocations that all returned a retryable status under a live
\* context, with MaxRetries = 2.
C18_Witness ==
    /\ retry.pc = "done"
    /\ retry.end = "exhausted"
    /\ retry.allRetryable
    /\ ctxErr = NoError
    /\ retryConfig.MaxRetries = 2
    /\ retry.invocations = 3
    /\ retry.result.StatusCode = StatusServiceUnavailable

\* The attempt during or after which the context became done; 0 when
\* Execute was called with a context that was done already.
C19_CancelledAttempt ==
    IF retry.cancelledIn.pc = "none" THEN 0 ELSE retry.cancelledIn.attempt

\* C19: once the context is done, Do starts no further attempt: fn has been
\* invoked at most once more than the number of the attempt in which the
\* context became done, and Do sleeps with a done context only if the
\* context became done during that sleep; a Do whose context became done
\* during a backoff sleep returns from that sleep with LastError = ctx.Err().
C19_CancelStopsRetrying ==
    /\ [](/\ ctxErr # NoError
          /\ retry.pc \in {"attempt", "backoff", "done"}
          /\ retry.end # "rejected"
          => /\ retry.invocations <= C19_CancelledAttempt + 1
             /\ retry.pc = "attempt" =>
                   retry.attempt = C19_CancelledAttempt
             /\ retry.pc = "backoff" =>
                   retry.cancelledIn = [pc |-> "backoff",
                                        attempt |-> retry.attempt]
             /\ (retry.pc = "done" /\ retry.cancelledIn.pc = "backoff") =>
                   /\ retry.end = "cancelled"
                   /\ retry.result.LastError = ctxErr
                   /\ retry.invocations = C19_CancelledAttempt + 1)
    /\ [][(retry.pc = "backoff" /\ ctxErr # NoError /\ retry' # retry) =>
             /\ retry'.pc = "done"
             /\ retry'.result.LastError = ctxErr
             /\ retry'.invocations = retry.invocations]_vars

\* The deadline passed during the sleep after the second of three possible
\* attempts.
C19_Witness ==
    /\ retry.pc = "done"
    /\ retry.end = "cancelled"
    /\ retry.cancelledIn = [pc |-> "backoff", attempt |-> 1]
    /\ retry.result.LastError = ErrDeadlineExceeded
    /\ retry.invocations = 2
    /\ retryConfig.MaxRetries = 2

\* The bucket the caller's requests are checked against, once it exists.
C20_Bucket ==
    LET key == bucketKey(rlCall.routeName, rlCall.userID, rlCall.config)
    IN  IF key \in DOMAIN limiters.userLimiters
        THEN limiters.userLimiters[key]
        ELSE limiters.routeLimiters[key]

C20_HasBucket ==
    LET key == bucketKey(rlCall.routeName, rlCall.userID, rlCall.config)
    IN  key \in DOMAIN limiters.userLimiters \cup DOMAIN limiters.routeLimiters

\* Once a second has passed, the requests admitted at this instant and
\* those the bucket can still admit now are at least floor(rpm / 60).
C20_SteadyRate ==
    (C20_HasBucket /\ rlWindow.elapsed) =>
        rlWindow.cur + C20_Bucket.tokens \div SecondsPerMinute
            >= rlCall.config.RequestsPerMinute \div SecondsPerMinute

\* C20 (as stated): the requests admitted within one second, from an
\* instant to the instant one second later, are at most rpm + 1, and the
\* steady rate is at least floor(rpm / 60) per second.
C20_Original ==
    /\ rlWindow.prev + rlWindow.cur <= rlCall.config.RequestsPerMinute + 1
    /\ C20_SteadyRate

\* C20 (amended): the requests admitted within one second, from an instant
\* to the instant one second later, are at most rpm + floor(rpm / 60): the
\* full bucket and the tokens one second refills; and the steady rate is at
\* least floor(rpm / 60) per second.
C20_WindowWithinBurstPlusRefill ==
    /\ rlWindow.prev + rlWindow.cur
          <= rlCall.config.RequestsPerMinute
             + rlCall.config.RequestsPerMinute \div SecondsPerMinute
    /\ C20_SteadyRate

\* At 120 requests per minute, 120 requests are admitted at one instant and
\* 2 more one second later.
C20_Witness ==
    /\ rlCall.config.RequestsPerMinute = 120
    /\ rlWindow.prev = 120
    /\ rlWindow.cur = 2
    /\ rlLast.Allowed

\* C21: a call of Allow with perUser set and a non-empty user id changes
\* nothing but the bucket "route:user" and leaves every route bucket alone;
\* any other limited call changes nothing but the bucket of its route and
\* leaves every user bucket alone; and a call is denied only when its own
\* bucket holds less than one token, so that an exhausted bucket never
\* denies another user, the route bucket or another route.
C21_PerUser == ~rlCall'.config.IsNil /\ rlCall'.config.PerUser
                 /\ rlCall'.userID # ""

C21_UserKey == rlCall'.routeName \o ":" \o rlCall'.userID

C21_OnlyKeyChanged(before, after, key) ==
    /\ DOMAIN after = DOMAIN before \cup {key}
    /\ \A k \in DOMAIN before \ {key} : after[k] = before[k]

C21_HadToken(table, key) ==
    IF key \in DOMAIN table THEN table[key].tokens >= SecondsPerMinute
    ELSE TRUE

C22_DeniedIsAnswered429Unhandled ==
    (srv.checked /\ ~srv.result.Allowed)
        => /\ srv.pc = "done"
           /\ srv.status = StatusTooManyRequests
           /\ {"X-RateLimit-Limit", "X-RateLimit-Remaining", "Retry-After"}
                 \subseteq DOMAIN srv.header
           /\ srv.header["X-RateLimit-Limit"] = srv.found.RateLimit.RequestsPerMinute
           /\ srv.header["Retry-After"] >= 1
           /\ ~srv.handled
           /\ srv.served = NoRoute

\* u1 is denied on r1 after its bucket was emptied.
C22_Witness ==
    /\ srv.checked
    /\ ~srv.result.Allowed
    /\ srv.found.Name = "r1"
    /\ srv.req.XUserID = "u1"
    /\ srv.status = StatusTooManyRequests

\* C23: when X-Route names a route that the cache does not hold in the
\* namespace of X-Namespace ("default" when the header is empty), FindRoute
\* returns no route and HandleRequest answers 404; a request that names a
\* route is never served through a route of another name or namespace.
C23_Key ==
    NamespacedName(IF srv.req.XNamespace = "" THEN "default"
                   ELSE srv.req.XNamespace, srv.req.XRoute)

C23_IsNamed(route) ==
    route.IsNil \/ (route.Name = C23_Key.Name
                    /\ route.Namespace = C23_Key.Namespace)

C23_AbsentNamedRouteIs404 ==
    /\ [](srv.req.XRoute # ""
            => C23_IsNamed(srv.found) /\ C23_IsNamed(srv.served))
    /\ [][(srv.pc # "handle" /\ srv'.pc = "handle" /\ srv'.req.XRoute # ""
             /\ NamespacedName(IF srv'.req.XNamespace = "" THEN "default"
                               ELSE srv'.req.XNamespace, srv'.req.XRoute)
                  \notin DOMAIN routeCache)
            => srv'.found = NoRoute]_vars
    /\ [][(srv.pc = "handle" /\ srv'.pc = "done" /\ srv.req.XRoute # ""
             /\ C23_Key \notin DOMAIN routeCache)
            => (srv'.status = StatusNotFound /\ srv'.served = NoRoute)]_vars

\* r2 was asked for in namespace prod, which holds only r1: 404.
C23_Witness ==
    /\ srv.pc = "done"
    /\ srv.handled
    /\ srv.req.XRoute = "r2"
    /\ srv.req.XNamespace = "prod"
    /\ NamespacedName("prod", "r1") \in DOMAIN routeCache
    /\ srv.found = NoRoute
    /\ srv.status = StatusNotFound

\* C24: for a request without X-Route, FindRoute never returns a route whose
\* cached phase is Failed or Pending, returns only routes the cache holds in
\* the request's namespace, and returns a route whenever the cache holds, in
\* that namespace, a route in another phase.
C24_Namespace ==
    IF srv'.req.XNamespace = "" THEN "default" ELSE srv'.req.XNamespace

C24_Cached ==
    {routeCache[k] : k \in {j \in DOMAIN routeCache :
                              j.Namespace = C24_Namespace}}

C24_FindRouteSkipsFailedAndPending ==
    [][(srv'.turn # srv.turn /\ srv'.req.XRoute = "" /\ ~srv'.req.TooLarge)
         => /\ srv'.found.Phase \notin {PhaseFailed, PhasePending}
            /\ srv'.found.IsNil \/ srv'.found \in C24_Cached
            /\ (\E route \in C24_Cached :
                   route.Phase \notin {PhaseFailed, PhasePending})
                 => ~srv'.found.IsNil]_vars

\* r1 is cached as Failed and the request was given the Degraded r2.
C24_Witness ==
    /\ srv.req.XRoute = ""
    /\ srv.pc # "idle"
    /\ srv.found.Name = "r2"
    /\ srv.found.Phase = PhaseDegraded
    /\ NamespacedName("default", "r1") \in DOMAIN routeCache
    /\ routeCache[NamespacedName("default", "r1")].Phase = PhaseFailed

\* C25: after every reconcile of a Route that stores its status, with
\* missing the referenced Backends that do not exist and unhealthy those
\* that exist and are not Healthy: BackendsReady is True exactly when both
\* are empty, and otherwise False with reason BackendsMissing when a Backend
\* is missing and BackendsUnhealthy when none is; RouteValid is True exactly
\* when none is missing; Ready is True exactly when the phase is Active or
\* Degraded.
C25_Names == collectBackendNames(apiRoutes[ctlLast'.key].Spec) \ ctlLast'.getErrs

C25_Missing == {n \in C25_Names : apiBackends[n] = NotFound}

C25_Unhealthy ==
    {n \in C25_Names \ C25_Missing :
        apiBackends[n].Health # HealthStatusHealthy}

C25_ConditionsFollowBackends ==
    [][(ctlLast'.op = "RouteReconcile" /\ ctlLast'.path = "status"
          /\ ~ctlLast'.err)
         => LET route == cacheRoutes'[ctlLast'.key]
            IN  /\ route = apiRoutes'[ctlLast'.key]
                /\ {route.BackendsReady.Status, route.RouteValid.Status,
                    route.Ready.Status} \subseteq {"True", "False"}
                /\ (route.BackendsReady.Status = "True")
                     <=> (C25_Missing = {} /\ C25_Unhealthy = {})
                /\ C25_Missing # {}
                     => route.BackendsReady.Reason = "BackendsMissing"
                /\ (C25_Missing = {} /\ C25_Unhealthy # {})
                     => route.BackendsReady.Reason = "BackendsUnhealthy"
                /\ (route.RouteValid.Status = "True") <=> (C25_Missing = {})
                /\ (route.Ready.Status = "True")
                     <=> (route.Phase \in {PhaseActive, PhaseDegraded})]_vars

\* A reconciled Route with a missing and an unhealthy Backend.
C25_Witness ==
    /\ ctlLast.op = "RouteReconcile"
    /\ ctlLast.path = "status"
    /\ ~ctlLast.err
    /\ cacheRoutes[ctlLast.key].BackendsReady.Reason = "BackendsMissing"
    /\ cacheRoutes[ctlLast.key].RouteValid.Status = "False"
    /\ cacheRoutes[ctlLast.key].Ready.Status = "False"
    /\ \E n \in Backends : apiBackends[n] = NotFound
    /\ \E n \in Backends :
          /\ apiBackends[n] # NotFound
          /\ apiBackends[n].Health # HealthStatusHealthy
          /\ n \in collectBackendNames(apiRoutes[ctlLast.key].Spec)

\* C26: the chain ExecuteWithFallback builds starts with the primary backend
\* and no backend name occurs in it twice.
C26_Original ==
    exec.pc # "idle"
        => \A i \in DOMAIN exec.chain, j \in DOMAIN exec.chain :
              i # j => exec.chain[i] # exec.chain[j]

\* C27: two calls of GetBackend with the same experiment and the same
\* derived user id (the first non-empty of X-User-ID, Authorization and the
\* remote address) get the same variant and the same backend, whatever
\* calls were made before or between them.
C27_UserID(req) ==
    IF req.XUserID # << >> THEN req.XUserID
    ELSE IF req.Authorization # << >> THEN req.Authorization
    ELSE req.RemoteAddr

C27_AssignmentIsDeterministic ==
    \A a \in exSeen, b \in exSeen :
        (a.experiment = b.experiment /\ C27_UserID(a.req) = C27_UserID(b.req))
            => a.result = b.result

\* u1 was assigned to the treatment of one experiment by two requests that
\* carry the id in different headers, and another user to its control.
C27_Witness ==
    \E a \in exSeen, b \in exSeen, c \in exSeen :
        /\ a.experiment = b.experiment
        /\ c.experiment = a.experiment
        /\ a.req # b.req
        /\ C27_UserID(a.req) = BytesU1
        /\ C27_UserID(b.req) = BytesU1
        /\ a.result.Variant = VariantTreatment
        /\ b.result.Variant = VariantTreatment
        /\ C27_UserID(c.req) # BytesU1
        /\ c.result.Variant = VariantControl

\* C28: once the reconcile of a deleted Backend has run, the cache holds no
\* entry under the Backend's key and the reconciler holds no failure counter
\* for it.
C28_Original ==
    [][(ctlLast'.op = "BackendReconcile" /\ ctlLast'.path = "deleted")
         => /\ ctlLast'.key \notin DOMAIN cacheBackends'
            /\ ctlLast'.key \notin DOMAIN failureCounts']_vars

\* C29: once the reconcile of a deleted Route has run, the cache holds no
\* entry for the Route and the rate limiter holds neither the bucket of the
\* Route nor a bucket "route:user" of it.
C29_Original ==
    [][\A key \in DOMAIN routeCache \ DOMAIN routeCache' :
          /\ key.Name \notin DOMAIN limiters'.routeLimiters
          /\ \A userID \in UserIDs :
                (key.Name \o ":" \o userID)
                    \notin DOMAIN limiters'.userLimiters]_vars

\* C30: after a route's requestsPerMinute has changed, the bucket an Allow
\* call decides on refills at the new rpm / 60 per second and has the new
\* rpm as its burst, also when the bucket existed before the change.
C30_Table ==
    IF rlCall.config.PerUser /\ rlCall.userID # ""
    THEN limiters.userLimiters
    ELSE limiters.routeLimiters

C30_Original ==
    \A key \in DOMAIN C30_Table :
        key = (IF rlCall.config.PerUser /\ rlCall.userID # ""
               THEN rlCall.routeName \o ":" \o rlCall.userID
               ELSE rlCall.routeName)
            => /\ C30_Table[key].limit = rlCall.config.RequestsPerMinute
               /\ C30_Table[key].burst = rlCall.config.RequestsPerMinute

\* C31: whenever no TrackRequest is between Lock and Unlock, each route and
\* each backend has an entry exactly when a call with a cost config was made
\* for it since the last Reset, and the entry's totalRequests,
\* totalInputTokens and totalOutputTokens are the count and the sums over
\* those calls; a call with a nil config changes nothing, and Reset leaves
\* both mappings empty.
C31_Quiescent ==
    \A t \in CostThreads : costCalls[t].pc \in {"idle", "lock"}

C31_Agree(stats, expected) ==
    /\ DOMAIN stats = DOMAIN expected
    /\ \A key \in DOMAIN stats :
          /\ stats[key].TotalRequests = expected[key].n
          /\ stats[key].TotalInputTokens = expected[key].input
          /\ stats[key].TotalOutputTokens = expected[key].output

C31_TotalsMatchCalls ==
    /\ [](C31_Quiescent
            => /\ C31_Agree(costs.routeCosts, costExpected.routes)
               /\ C31_Agree(costs.backendCosts, costExpected.backends))
    /\ [][costLast'.op = "TrackRequestNil" => costs' = costs]_vars
    /\ [][costLast'.op = "Reset"
            => (DOMAIN costs'.routeCosts = {}
                /\ DOMAIN costs'.backendCosts = {})]_vars

\* Three calls have returned, two of them for r1, while no call is running.
C31_Witness ==
    /\ C31_Quiescent
    /\ "r1" \in DOMAIN costs.routeCosts
    /\ costs.routeCosts["r1"].TotalRequests = 2
    /\ costs.routeCosts["r1"].TotalInputTokens = 3
    /\ "b1" \in DOMAIN costs.backendCosts
    /\ costs.backendCosts["b1"].TotalRequests = 3

\* The names a Route's spec refers to: rule backends, defaultBackend, the
\* fallback chain, and the control and treatment of its experiments.
C32_References(s) ==
    {n \in ObjectNames :
        \/ \E i \in DOMAIN s.Rules : \E j \in DOMAIN s.Rules[i].Backends :
              s.Rules[i].Backends[j].Name = n
        \/ ~s.DefaultBackend.IsNil /\ s.DefaultBackend.Name = n
        \/ ~s.Fallback.IsNil /\ \E i \in DOMAIN s.Fallback.Backends :
              s.Fallback.Backends[i] = n
        \/ \E i \in DOMAIN s.Experiments :
              s.Experiments[i].Control = n \/ s.Experiments[i].Treatment = n}

\* The Routes of Backend b's namespace that refer to b.
C32_RoutesOf(b) ==
    {r \in WatchRoutes :
        /\ apiRoutes[r] # NotFound
        /\ KeyNamespace(r) = KeyNamespace(b)
        /\ KeyName(b) \in C32_References(apiRoutes[r].Spec)}

\* The phase of Route r computed from the current Backend healths.
C32_Phase(r) ==
    LET names == C32_References(apiRoutes[r].Spec)
        healthy == {n \in names :
                      /\ getBackend(apiBackends, r, n) # NotFound
                      /\ getBackend(apiBackends, r, n).Health =
                             HealthStatusHealthy}
    IN IF names = {} THEN PhasePending
       ELSE IF \E n \in names : getBackend(apiBackends, r, n) = NotFound
       THEN PhaseFailed
       ELSE IF healthy = {} THEN PhaseFailed
       ELSE IF healthy # names THEN PhaseDegraded
       ELSE PhaseActive

C32_Converged(r) ==
    /\ r \in DOMAIN cacheRoutes
    /\ cacheRoutes[r].Phase = C32_Phase(r)

\* A step in which the watch handler handled the change event of a Backend.
C32_Handled(b) == b \in events /\ events' = events \ {b}

C33_AttemptReturns ==
    /\ retry.pc = "attempt"
    /\ retry'.invocations = retry.invocations + 1

C33_RetryableStatus(statusCode) ==
    statusCode \in retryConfig.RetryableStatusCodes

\* A retryable error: never a context error; a connection error when
\* RetryOnConnectionError is set, a timeout when RetryOnTimeout is set.
C33_RetryableError(err) ==
    /\ err \notin {NoError, ErrCanceled, ErrDeadlineExceeded}
    /\ \/ retryConfig.RetryOnConnectionError
          /\ err \in {ErrConnRefused, ErrNetTimeout}
       \/ retryConfig.RetryOnTimeout /\ err = ErrNetTimeout

\* C33: after attempt a of Do returns (status, err), Do returns at once as a
\* success iff err is nil and status is not retryable; otherwise it goes on
\* to another attempt iff a < maxRetries, the context is not cancelled and
\* (status is retryable or err is a retryable error), and the attempt is
\* made iff the context is still not cancelled when the backoff ends; in all
\* other cases Do returns the failure without a further attempt.
C33_DoRetriesExactlyWhenAllowed ==
    /\ [][C33_AttemptReturns =>
            LET statusCode == retry'.returned.statusCode
                err == retry'.returned.err
                success == err = NoError /\ ~C33_RetryableStatus(statusCode)
                again == /\ ~success
                         /\ retry.attempt < retryConfig.MaxRetries
                         /\ ctxErr = NoError
                         /\ \/ C33_RetryableStatus(statusCode)
                            \/ C33_RetryableError(err)
            IN /\ (retry'.pc = "done" /\ retry'.end = "success") <=> success
               /\ retry'.pc = "backoff" <=> again
               /\ ~success /\ ~again =>
                     /\ retry'.pc = "done"
                     /\ retry'.end = "exhausted"
                     /\ retry'.result.LastError = err
                     /\ retry'.result.StatusCode = statusCode
               /\ retry'.result.Attempts = retry.attempt + 1]_vars
    /\ [][retry.pc = "backoff" /\ retry'.pc # "backoff" =>
            IF ctxErr = NoError
            THEN /\ retry'.pc = "attempt"
                 /\ retry'.attempt = retry.attempt + 1
                 /\ retry'.invocations = retry.invocations
            ELSE /\ retry'.pc = "done"
                 /\ retry'.invocations = retry.invocations
                 /\ retry'.result.LastError = ctxErr]_vars

\* After a retried attempt, fn returned a context error while the context
\* itself was not cancelled and retries were left: Do returned the failure.
C33_Witness ==
    /\ retry.pc = "done"
    /\ retry.end = "exhausted"
    /\ retry.attempt > 0
    /\ retry.attempt < retryConfig.MaxRetries
    /\ retry.returned.err \in {ErrCanceled, ErrDeadlineExceeded}
    /\ ctxErr = NoError
    /\ retryConfig.RetryOnConnectionError
    /\ retry.invocations = retry.attempt + 1

\* What Allow does to the limiter when the caller of rlCall calls it now.
C34_Call ==
    RateLimiter_Allow(limiters, rlCall.routeName, rlCall.userID, rlCall.config)

\* C34: a denied Allow consumes nothing: the limiter's buckets after the
\* denial are what they were before the call, and the result has allowed =
\* false, remaining = 0 and retryAfter > 0.
C34_DeniedAllowConsumesNothing ==
    /\ [](~C34_Call.result.Allowed =>
             /\ C34_Call.rl = limiters
             /\ C34_Call.result.Remaining = 0
             /\ C34_Call.result.RetryAfter > 0)
    /\ [][rlLast' # rlLast /\ ~rlLast'.Allowed =>
             /\ limiters' = limiters
             /\ rlWindow' = rlWindow
             /\ rlLast'.Remaining = 0
             /\ rlLast'.RetryAfter > 0]_vars

\* A request was denied on a bucket that time has partly refilled.
C34_Witness ==
    /\ ~rlLast.Allowed
    /\ rlLast.RetryAfter > 0
    /\ ~C34_Call.result.Allowed
    /\ rlWindow.elapsed
    /\ \E k \in DOMAIN limiters.routeLimiters :
          /\ limiters.routeLimiters[k].tokens > 0
          /\ limiters.routeLimiters[k].tokens < SecondsPerMinute

\* The per-user keys of route r: "r:" followed by a user.
C35_UserKeysOf(r) == {r \o ":" \o u : u \in {"u1", "u2"}}

\* A step in which RemoveRouteLimit(r) ran.
C35_Removes(r) ==
    /\ rlOp'.op = "RemoveRouteLimit"
    /\ rlOp'.key = r
    /\ rlOp' # rlOp \/ limiters' # limiters

\* C35: RemoveRouteLimit(r) deletes the bucket of route r and every per-user
\* bucket and last-access entry of route r, and leaves the route buckets and
\* per-user buckets of every other route unchanged.
C35_RemoveRouteLimitDropsOnlyItsRoute ==
    [][\A r \in EvictRoutes :
          C35_Removes(r) =>
              /\ r \notin DOMAIN limiters'.routeLimiters
              /\ DOMAIN limiters'.userLimiters \cap C35_UserKeysOf(r) = {}
              /\ DOMAIN limiters'.lastAccess \cap C35_UserKeysOf(r) = {}
              /\ \A k \in DOMAIN limiters.routeLimiters \ {r} :
                    /\ k \in DOMAIN limiters'.routeLimiters
                    /\ limiters'.routeLimiters[k] = limiters.routeLimiters[k]
              /\ \A k \in DOMAIN limiters.userLimiters \ C35_UserKeysOf(r) :
                    /\ k \in DOMAIN limiters'.userLimiters
                    /\ limiters'.userLimiters[k] = limiters.userLimiters[k]
                    /\ k \in DOMAIN limiters'.lastAccess
                    /\ limiters'.lastAccess[k] = limiters.lastAccess[k]
              /\ DOMAIN limiters'.routeLimiters \subseteq
                    DOMAIN limiters.routeLimiters
              /\ DOMAIN limiters'.userLimiters \subseteq
                    DOMAIN limiters.userLimiters]_vars

C35_Drained(b) == b.tokens < SecondsPerMinute

\* RemoveRouteLimit("r1") ran on a limiter that held the route bucket and
\* two user buckets of r1 and a drained route and user bucket of r10: only
\* those of r10 are left, drained as they were.
C35_Witness ==
    /\ rlOp = [op |-> "RemoveRouteLimit", key |-> "r1"]
    /\ DOMAIN limiters.routeLimiters = {"r10"}
    /\ DOMAIN limiters.userLimiters = {"r10:u1"}
    /\ DOMAIN limiters.lastAccess = {"r10:u1"}
    /\ C35_Drained(limiters.routeLimiters["r10"])
    /\ C35_Drained(limiters.userLimiters["r10:u1"])

\* The per-user buckets whose last Allow is older than the TTL.
C36_Idle ==
    {k \in DOMAIN limiters.userLimiters :
        now - limiters.lastAccess[k] > UserLimiterTTL}

C36_FreshBucketAfterOneAllow ==
    [limit |-> 1, burst |-> 1, tokens |-> 0]

\* C36: an eviction pass removes exactly the per-user buckets whose last
\* Allow is older than the TTL; a per-user bucket used within the TTL is kept
\* with its token state, route buckets are never evicted, and the next Allow
\* of a user without a bucket starts from a fresh full bucket.  Every Allow
\* on a per-user bucket is recorded as its last use.
C36_CleanupEvictsExactlyIdleUsers ==
    /\ [](DOMAIN limiters.lastAccess = DOMAIN limiters.userLimiters)
    /\ [][rlOp'.op = "cleanup" /\ rlOp' # rlOp =>
             /\ DOMAIN limiters'.userLimiters =
                   DOMAIN limiters.userLimiters \ C36_Idle
             /\ \A k \in DOMAIN limiters'.userLimiters :
                   /\ limiters'.userLimiters[k] = limiters.userLimiters[k]
                   /\ limiters'.lastAccess[k] = limiters.lastAccess[k]
             /\ limiters'.routeLimiters = limiters.routeLimiters]_vars
    /\ [][rlOp'.op = "Allow" /\ rlOp'.key \in UNION {C35_UserKeysOf(r) :
                                                      r \in EvictRoutes} =>
             /\ limiters'.lastAccess[rlOp'.key] = now
             /\ rlOp'.key \notin DOMAIN limiters.userLimiters =>
                   /\ rlLast'.Allowed
                   /\ rlLast'.Remaining = 0
                   /\ limiters'.userLimiters[rlOp'.key] =
                         C36_FreshBucketAfterOneAllow]_vars

\* An eviction pass removed the bucket of r1's user u1, idle for longer
\* than the TTL, and kept the drained bucket of u2, used since, and the
\* drained route bucket of r1.
C36_Witness ==
    /\ rlOp.op = "cleanup"
    /\ rlOp.evicted = {"r1:u1"}
    /\ "r1:u2" \in DOMAIN limiters.userLimiters
    /\ C35_Drained(limiters.userLimiters["r1:u2"])
    /\ now - limiters.lastAccess["r1:u2"] <= UserLimiterTTL
    /\ "r1" \in DOMAIN limiters.routeLimiters
    /\ C35_Drained(limiters.routeLimiters["r1"])

\* A step in which the backoff select of ExecuteWithFallback found the
\* client's context done.
C37_CancelledInBackoff ==
    /\ exec.pc = "backoff"
    /\ exec'.pc = "done"
    /\ exec'.end = "cancelled"

\* C37 (as stated): if the client's context is cancelled while
\* ExecuteWithFallback waits between a failed attempt and the next chain
\* entry, no further backend is attempted and the client is answered 503
\* "Request cancelled".
C37_Original ==
    [][C37_CancelledInBackoff =>
          /\ exec'.log = exec.log
          /\ exec'.i = exec.i
          /\ clientW'.status = StatusServiceUnavailable
          /\ clientW'.body = <<[msg |-> "Request cancelled"]>>]_vars

\* A step in which a Backend reconcile found the Backend and returned
\* without error.
C38_Reconciled ==
    /\ ctlLast'.op = "BackendReconcile"
    /\ ctlLast'.path \in {"probed", "configError"}
    /\ ~ctlLast'.err

\* C38 (as stated): after every Backend reconcile that finds the Backend and
\* returns without error, the cache entry of the key carries the health that
\* reconcile wrote to the status, on the configuration-error path too; so
\* the cache never holds Healthy for a Backend whose written status is not
\* Healthy.
C38_Original ==
    [][C38_Reconciled =>
          /\ ctlLast'.key \in DOMAIN cacheBackends'
          /\ cacheBackends'[ctlLast'.key].Health =
                apiBackends'[ctlLast'.key].Health]_vars

\* A step in which Router.HandleRequest dispatched a request whose
\* rate-limit bucket Server.ServeHTTP had charged.
C39_DispatchedAfterCharge ==
    /\ srv.pc = "handle"
    /\ srv.checked
    /\ srv'.pc = "done"
    /\ ~srv'.served.IsNil

\* C39 (as stated): the route whose rate-limit bucket is charged in
\* Server.ServeHTTP is the route through which Router.HandleRequest then
\* dispatches the request, also when the request names no route and several
\* routes of the namespace are eligible, and when the cache is updated
\* between the two lookups.
C39_Original ==
    [][C39_DispatchedAfterCharge =>
          /\ srv'.served.Namespace = srv.found.Namespace
          /\ srv'.served.Name = srv.found.Name
          /\ srv'.served.RateLimit = srv.found.RateLimit]_vars

\* C40 (as stated): in every reachable state of a circuit breaker, under any
\* interleaving of Allow, RecordSuccess and RecordFailure of concurrent
\* requests, results of requests admitted while Closed and recorded while
\* HalfOpen included, the half-open counter is within
\* 0..HalfOpenMaxRequests and at most HalfOpenMaxRequests requests admitted
\* in HalfOpen are not yet recorded.
C40_Original ==
    /\ cb.halfOpenRequests >= 0
    /\ cb.halfOpenRequests <= cbConfig.HalfOpenMaxRequests
    /\ flight.probe <= cbConfig.HalfOpenMaxRequests

====
